---- MODULE Spec2Model ----
(***************************************************************************)
(* Budget computation engine of BudgetApp: the income-statement cascade    *)
(* of the multi-branch monthly budget view (income-statement-budget.js)    *)
(* and of the per-branch assumption editor (income-statement.js), the      *)
(* period iterator, the branch aggregator and the loading of their data.   *)
(*                                                                         *)
(* Numbers.  A JavaScript number is modelled as an exact decimal           *)
(* <<n, k>> = n / 10^k in canonical form (k = 0 or n not a multiple of     *)
(* 10); NaN, which also stands for `undefined` in a numeric position, is   *)
(* <<0, -1>>.  Sums, differences and products are exact: the rounding of   *)
(* IEEE-754 doubles is not modelled, except in the conversion between the  *)
(* displayed and the stored form of a percentage (app.js), which is also   *)
(* followed in double precision.                                           *)
(***************************************************************************)
EXTENDS Integers, Sequences, FiniteSets, TLC

(***************************************************************************)
(* Decimal arithmetic                                                      *)
(***************************************************************************)
NaN == <<0, -1>>

\* null, where a number is expected
null == <<>>

Zero == <<0, 0>>

IsNaN(x) == x[2] < 0

RECURSIVE Pow10(_)
Pow10(k) == IF k = 0 THEN 1 ELSE 10 * Pow10(k - 1)

RECURSIVE Normalise(_, _)
Normalise(n, k) ==
    IF k > 0 /\ n % 10 = 0 THEN Normalise(n \div 10, k - 1) ELSE <<n, k>>

\* an integer amount
Num(n) == <<n, 0>>

\* a + b
Add(a, b) ==
    IF IsNaN(a) \/ IsNaN(b) THEN NaN
    ELSE IF a[2] = b[2] THEN Normalise(a[1] + b[1], a[2])
    ELSE IF a[2] < b[2]
         THEN Normalise(a[1] * Pow10(b[2] - a[2]) + b[1], b[2])
         ELSE Normalise(a[1] + b[1] * Pow10(a[2] - b[2]), a[2])

\* a wrong variant of Sub, the operands exchanged: b - a
SubExchanged(a, b) == IF IsNaN(a) THEN NaN ELSE Add(b, <<0 - a[1], a[2]>>)

\* a - b
Sub(a, b) == IF IsNaN(b) THEN NaN ELSE Add(a, <<0 - b[1], b[2]>>)

\* a * b
Mul(a, b) ==
    IF IsNaN(a) \/ IsNaN(b) THEN NaN
    ELSE Normalise(a[1] * b[1], a[2] + b[2])

\* a / 100
Div100(a) == IF IsNaN(a) THEN NaN ELSE Normalise(a[1], a[2] + 2)

\* a < 0, a > 0 (false for NaN, as in JavaScript)
IsNegative(a) == ~IsNaN(a) /\ a[1] < 0

IsPositive(a) == ~IsNaN(a) /\ a[1] > 0

\* f itself, with every value computed once: TLC evaluates [x \in S |-> e]
\* anew at each application unless the function is made explicit
Eager(f) == f @@ <<>>

\* a wrong variant of OrZero, without the default: x itself
OrZeroMissing(x) == x

\* x || 0 : undefined, null, NaN and 0 are falsy
OrZero(x) == IF x = null \/ IsNaN(x) \/ x[1] = 0 THEN Zero ELSE x

(***************************************************************************)
(* Line-item catalog                                                       *)
(***************************************************************************)
BRANCH_IDS == 1 .. 6

Months == 1 .. 12

RevenueTypes == <<"IP", "OP", "ER">>

REVENUE_TYPE_CONFIG ==
    <<"REV_TYPE_INSURANCE", "REV_TYPE_CASH", "REV_TYPE_MOH", "REV_TYPE_OTHER_CREDIT">>

directCostCodes ==
    <<"DC_CONSUMABLES", "DC_MEDICINES", "DC_DOCTORS_FEE", "DC_EMPLOYEE",
      "DC_GOVT_FEES", "DC_INSURANCE", "DC_KITCHEN", "DC_MAINTENANCE", "DC_OTHER",
      "DC_REFERRAL", "DC_RENTAL", "DC_TRAINING", "DC_TRAVEL", "DC_UTILITIES">>

gaCodes ==
    <<"GA_GOVT_FEE", "GA_AUDIT", "GA_COMMUNICATION", "GA_ECL", "GA_OTHER",
      "GA_POSTAGE", "GA_PROFESSIONAL", "GA_SECURITY", "GA_TRAINING", "GA_EMPLOYEE",
      "GA_MARKETING", "GA_HO_CHARGES">>

\* the codes of LINE_ITEMS_CONFIG, in catalog order
LINE_ITEMS_CONFIG ==
    <<"REV_IP", "REV_OP", "REV_ER", "REV_SUB",
      "DIS_REJECTION_MOH", "DIS_REJECTION_INS", "DIS_REJECTION",
      "DIS_VOLUME", "DIS_EARLY_PAY", "DIS_SETTLEMENT", "REV_NET">>
    \o directCostCodes \o <<"TOTAL_DC", "GROSS_PROFIT">>
    \o gaCodes \o <<"TOTAL_GA", "OTHER_INCOME", "EBITDA",
      "FINANCE_COST", "DEPRECIATION", "ZAKAT", "NET_PROFIT", "OCI",
      "TOTAL_COMP_INCOME">>

Range(s) == {s[i] : i \in 1 .. Len(s)}

Codes == Range(LINE_ITEMS_CONFIG)

\* isRevenue: true
RevenueItems == {"REV_IP", "REV_OP", "REV_ER"}

\* isCalculated: true
CalculatedItems ==
    {"REV_SUB", "DIS_REJECTION", "DIS_SETTLEMENT", "REV_NET", "TOTAL_DC",
     "GROSS_PROFIT", "TOTAL_GA", "EBITDA", "NET_PROFIT", "TOTAL_COMP_INCOME"}

\* the items that take a percentage assumption (neither revenue nor calculated)
AssumptionItems == Codes \ (RevenueItems \cup CalculatedItems)

\* calcFromSubRevenue: true, with an assumption of their own
SubRevenueItems ==
    {"DIS_REJECTION_MOH", "DIS_REJECTION_INS", "DIS_VOLUME", "DIS_EARLY_PAY"}

(***************************************************************************)
(* JSON values as the API delivers them: a number, a string (with the      *)
(* number parseFloat reads from its text, NaN when it has no numeric       *)
(* prefix) or null.                                                        *)
(***************************************************************************)
JNum(d) == <<"number", d>>

JStr(d) == <<"string", d>>

JNull == <<"null", NaN>>

\* parseFloat(v); parseFloat(undefined) and parseFloat(null) are NaN
parseFloat(v) == IF v[1] = "null" THEN NaN ELSE v[2]

(***************************************************************************)
(* Budget view (income-statement-budget.js): the calculation engine        *)
(*   mrd : monthlyRevenueData   { branchId: { month: { IP, OP, ER } } }    *)
(*   ad  : assumptionsData      { branchId: { code: {assumption_value} } } *)
(*   rta : revenueTypeAssumptions { branchId: { REV_TYPE_...: value } }    *)
(* An object is a function whose DOMAIN is its set of keys.                *)
(***************************************************************************)

\* monthRevenueOf, reading the first month whatever month is asked for
monthRevenueOfFirstMonth(mrd, branchId, month) ==
    IF branchId \in DOMAIN mrd /\ 1 \in DOMAIN mrd[branchId]
    THEN mrd[branchId][1]
    ELSE [t \in Range(RevenueTypes) |-> JNum(Zero)]

\* monthData?.[month] || monthData?.[String(month)] || { IP: 0, OP: 0, ER: 0 }
monthRevenueOf(mrd, branchId, month) ==
    IF branchId \in DOMAIN mrd /\ month \in DOMAIN mrd[branchId]
    THEN mrd[branchId][month]
    ELSE [t \in Range(RevenueTypes) |-> JNum(Zero)]

\* parseFloat(monthRevenue.IP) || 0
\* a wrong variant of revenueOf, `|| 1` in the place of `|| 0`
revenueOfOrOne(monthRevenue, type) ==
    LET amount == IF type \in DOMAIN monthRevenue THEN parseFloat(monthRevenue[type]) ELSE NaN
    IN  IF IsNaN(amount) \/ amount = Zero THEN Num(1) ELSE amount

revenueOf(monthRevenue, type) ==
    OrZero(IF type \in DOMAIN monthRevenue THEN parseFloat(monthRevenue[type]) ELSE NaN)

\* a wrong variant of assumptionPct, a value that is not a number kept
assumptionPctKept(ad, branchId, code) ==
    IF branchId \in DOMAIN ad /\ code \in DOMAIN ad[branchId]
    THEN ad[branchId][code].assumption_value
    ELSE Zero

\* assumptionsData[branchId]?.[code]?.assumption_value || 0
assumptionPct(ad, branchId, code) ==
    OrZero(IF branchId \in DOMAIN ad /\ code \in DOMAIN ad[branchId]
           THEN ad[branchId][code].assumption_value
           ELSE NaN)

\* revenueTypeAssumptions[branchId]?.[code] || 0
revTypePct(rta, branchId, code) ==
    OrZero(IF branchId \in DOMAIN rta /\ code \in DOMAIN rta[branchId]
           THEN rta[branchId][code]
           ELSE NaN)

\* a wrong variant of PercentOf, the percentage not divided by 100
PercentOfUndivided(base, pct) == Mul(base, pct)

\* base * (pct / 100)
PercentOf(base, pct) == Mul(base, Div100(pct))

\* a wrong variant of RejectionOf, without the revenue-type allocation
RejectionOfOnePercentage(base, pct, typePct) == Mul(base, Div100(pct))

\* subRevenue * (rejectionPct / 100) * (revTypePct / 100)
RejectionOf(base, pct, typePct) == Mul(Mul(base, Div100(pct)), Div100(typePct))

\* a wrong variant of SumValues, the first code left out
RECURSIVE SumValuesFromSecond(_, _, _)
SumValuesFromSecond(codes, value, i) ==
    IF i <= 1 THEN Zero
    ELSE Add(SumValuesFromSecond(codes, value, i - 1), value[codes[i]])

\* the running total of a forEach over `codes`: total += value, from 0
RECURSIVE SumValues(_, _, _)
SumValues(codes, value, i) ==
    IF i = 0 THEN Zero ELSE Add(SumValues(codes, value, i - 1), value[codes[i]])

\* calculateMonthValues(branchId, month): the values it writes under month_<month>
calculateMonthValues(mrd, ad, rta, branchId, month) ==
    LET monthRevenue == monthRevenueOf(mrd, branchId, month)
        ipRevenue == revenueOf(monthRevenue, "IP")
        opRevenue == revenueOf(monthRevenue, "OP")
        erRevenue == revenueOf(monthRevenue, "ER")
        subRevenue == Add(Add(ipRevenue, opRevenue), erRevenue)
        mohRevTypePct == revTypePct(rta, branchId, "REV_TYPE_MOH")
        insuranceRevTypePct == revTypePct(rta, branchId, "REV_TYPE_INSURANCE")
        rejectionMohValue ==
            RejectionOf(subRevenue, assumptionPct(ad, branchId, "DIS_REJECTION_MOH"),
                        mohRevTypePct)
        rejectionInsValue ==
            RejectionOf(subRevenue, assumptionPct(ad, branchId, "DIS_REJECTION_INS"),
                        insuranceRevTypePct)
        totalRejection == Add(rejectionMohValue, rejectionInsValue)
        volumeValue == PercentOf(subRevenue, assumptionPct(ad, branchId, "DIS_VOLUME"))
        earlyPayValue ==
            PercentOf(subRevenue, assumptionPct(ad, branchId, "DIS_EARLY_PAY"))
        totalDiscounts == Add(Add(totalRejection, volumeValue), earlyPayValue)
        netRevenue == Sub(subRevenue, totalDiscounts)
        \* value = netRevenue * (pct / 100), for the direct costs, the G&A
        \* expenses, other income, finance cost, depreciation, zakat and OCI
        ofNet == Eager([code \in AssumptionItems \ SubRevenueItems |->
                        PercentOf(netRevenue, assumptionPct(ad, branchId, code))])
        totalDirectCosts == SumValues(directCostCodes, ofNet, Len(directCostCodes))
        grossProfit == Sub(netRevenue, totalDirectCosts)
        totalGAExpenses == SumValues(gaCodes, ofNet, Len(gaCodes))
        ebitda == Add(Sub(grossProfit, totalGAExpenses), ofNet["OTHER_INCOME"])
        netProfit ==
            Sub(Sub(Sub(ebitda, ofNet["FINANCE_COST"]), ofNet["DEPRECIATION"]),
                ofNet["ZAKAT"])
        computed ==
            [REV_IP |-> ipRevenue, REV_OP |-> opRevenue, REV_ER |-> erRevenue,
             REV_SUB |-> subRevenue,
             DIS_REJECTION_MOH |-> rejectionMohValue,
             DIS_REJECTION_INS |-> rejectionInsValue,
             DIS_REJECTION |-> totalRejection,
             DIS_VOLUME |-> volumeValue, DIS_EARLY_PAY |-> earlyPayValue,
             DIS_SETTLEMENT |-> totalDiscounts, REV_NET |-> netRevenue,
             TOTAL_DC |-> totalDirectCosts, GROSS_PROFIT |-> grossProfit,
             TOTAL_GA |-> totalGAExpenses, EBITDA |-> ebitda,
             NET_PROFIT |-> netProfit,
             TOTAL_COMP_INCOME |-> Add(netProfit, ofNet["OCI"])]
    IN  Eager([code \in Codes |->
                IF code \in DOMAIN ofNet THEN ofNet[code] ELSE computed[code]])

\* the values of the branch selector: 'all' or a branch ID, as a string
BranchChoices == {"all"} \cup {ToString(b) : b \in BRANCH_IDS}

\* the budget years the API knows
Years == {2026, 2027}

\* parseInt(text), for the text of a branch ID or of a year
parseInt(s) == CHOOSE n \in BRANCH_IDS \cup Years : ToString(n) = s

\* getSelectedBranches(): BRANCH_IDS for 'all', else [parseInt(selectedBranch)]
getSelectedBranches(sel) == IF sel = "all" THEN BRANCH_IDS ELSE {parseInt(sel)}

\* a wrong variant of SumMonths, the sum without the first month
RECURSIVE SumMonthsFromSecond(_, _)
SumMonthsFromSecond(month, m) ==
    IF m <= 1 THEN Zero ELSE Add(SumMonthsFromSecond(month, m - 1), OrZero(month[m]))

\* fyTotal += calculatedData[branchId][code][`month_${m}`] || 0, for m = 1 .. 12
RECURSIVE SumMonths(_, _)
SumMonths(month, m) ==
    IF m = 0 THEN Zero ELSE Add(SumMonths(month, m - 1), OrZero(month[m]))

\* the entry calculateAllBranchValues builds for one branch:
\* { code: { month_1 .. month_12, fy_total } }
calculateBranchValues(mrd, ad, rta, branchId) ==
    LET values ==
            Eager([m \in Months |-> calculateMonthValues(mrd, ad, rta, branchId, m)])
    IN  Eager([code \in Codes |->
                LET month == Eager([m \in Months |-> values[m][code]])
                IN  [month |-> month, fy_total |-> SumMonths(month, 12)]])

\* calculateAllBranchValues(): calculatedData after it ran for the selection `sel`
calculateAllBranchValues(mrd, ad, rta, cd, sel) ==
    Eager([b \in DOMAIN cd \cup getSelectedBranches(sel) |->
            IF b \in getSelectedBranches(sel)
            THEN calculateBranchValues(mrd, ad, rta, b)
            ELSE cd[b]])

(***************************************************************************)
(* Assumption editor (income-statement.js): the calculation engine         *)
(*   rd : revenueData  { branchId: { IP, OP, ER } }, numbers               *)
(***************************************************************************)

\* a wrong variant of editorRevenueOf, the inpatient amount for every care type
editorRevenueOfInpatient(rd, branchId, type) ==
    IF branchId \in DOMAIN rd /\ "IP" \in DOMAIN rd[branchId]
       /\ ~IsNaN(rd[branchId]["IP"])
    THEN rd[branchId]["IP"] ELSE Zero

\* revenueData[branchId]?.IP || 0
editorRevenueOf(rd, branchId, type) ==
    OrZero(IF branchId \in DOMAIN rd /\ type \in DOMAIN rd[branchId]
           THEN rd[branchId][type]
           ELSE NaN)

\* the body of calculateAllValues for one branch: { code: value }; the raw
\* revenue items REV_IP, REV_OP and REV_ER get no entry
calculateValues(rd, ad, rta, branchId) ==
    LET ipRevenue == editorRevenueOf(rd, branchId, "IP")
        opRevenue == editorRevenueOf(rd, branchId, "OP")
        erRevenue == editorRevenueOf(rd, branchId, "ER")
        subRevenue == Add(Add(ipRevenue, opRevenue), erRevenue)
        mohRevTypePct == revTypePct(rta, branchId, "REV_TYPE_MOH")
        insuranceRevTypePct == revTypePct(rta, branchId, "REV_TYPE_INSURANCE")
        rejectionMohPct == assumptionPct(ad, branchId, "DIS_REJECTION_MOH")
        rejectionMohValue ==
            Mul(Mul(subRevenue, Div100(rejectionMohPct)), Div100(mohRevTypePct))
        rejectionInsPct == assumptionPct(ad, branchId, "DIS_REJECTION_INS")
        rejectionInsValue ==
            Mul(Mul(subRevenue, Div100(rejectionInsPct)), Div100(insuranceRevTypePct))
        totalRejection == Add(rejectionMohValue, rejectionInsValue)
        volumeValue ==
            Mul(subRevenue, Div100(assumptionPct(ad, branchId, "DIS_VOLUME")))
        earlyPayValue ==
            Mul(subRevenue, Div100(assumptionPct(ad, branchId, "DIS_EARLY_PAY")))
        totalDiscounts == Add(Add(totalRejection, volumeValue), earlyPayValue)
        netRevenue == Sub(subRevenue, totalDiscounts)
        dc == Eager([code \in Range(directCostCodes) |->
                    Mul(netRevenue, Div100(assumptionPct(ad, branchId, code)))])
        totalDirectCosts == SumValues(directCostCodes, dc, Len(directCostCodes))
        grossProfit == Sub(netRevenue, totalDirectCosts)
        ga == Eager([code \in Range(gaCodes) |->
                    Mul(netRevenue, Div100(assumptionPct(ad, branchId, code)))])
        totalGAExpenses == SumValues(gaCodes, ga, Len(gaCodes))
        otherIncome ==
            Mul(netRevenue, Div100(assumptionPct(ad, branchId, "OTHER_INCOME")))
        ebitda == Add(Sub(grossProfit, totalGAExpenses), otherIncome)
        financeCost ==
            Mul(netRevenue, Div100(assumptionPct(ad, branchId, "FINANCE_COST")))
        depreciation ==
            Mul(netRevenue, Div100(assumptionPct(ad, branchId, "DEPRECIATION")))
        zakat == Mul(netRevenue, Div100(assumptionPct(ad, branchId, "ZAKAT")))
        netProfit == Sub(Sub(Sub(ebitda, financeCost), depreciation), zakat)
        oci == Mul(netRevenue, Div100(assumptionPct(ad, branchId, "OCI")))
        other ==
            [REV_SUB |-> subRevenue,
             DIS_REJECTION_MOH |-> rejectionMohValue,
             DIS_REJECTION_INS |-> rejectionInsValue,
             DIS_REJECTION |-> totalRejection,
             DIS_VOLUME |-> volumeValue, DIS_EARLY_PAY |-> earlyPayValue,
             DIS_SETTLEMENT |-> totalDiscounts, REV_NET |-> netRevenue,
             TOTAL_DC |-> totalDirectCosts, GROSS_PROFIT |-> grossProfit,
             TOTAL_GA |-> totalGAExpenses, OTHER_INCOME |-> otherIncome,
             EBITDA |-> ebitda, FINANCE_COST |-> financeCost,
             DEPRECIATION |-> depreciation, ZAKAT |-> zakat,
             NET_PROFIT |-> netProfit, OCI |-> oci,
             TOTAL_COMP_INCOME |-> Add(netProfit, oci)]
    IN  Eager([code \in Codes \ RevenueItems |->
                IF code \in DOMAIN dc THEN dc[code]
                ELSE IF code \in DOMAIN ga THEN ga[code]
                ELSE other[code]])

\* calculateAllValues(): calculatedData = { branchId: { code: value } }
calculateAllValues(rd, ad, rta) ==
    Eager([b \in BRANCH_IDS |-> calculateValues(rd, ad, rta, b)])

\* revenueType of a raw revenue item of the catalog
revenueTypeOf(code) ==
    CASE code = "REV_IP" -> "IP" [] code = "REV_OP" -> "OP" [] code = "REV_ER" -> "ER"

\* the amount the editor has for a line item of a branch: a raw revenue item
\* is the amount calculateAllValues reads, and the row shows, from
\* revenueData (revenueData[branchId]?.[item.revenueType] || 0); every other
\* item is its entry of calculatedData
editorAmount(rd, cd, branchId, code) ==
    IF code \in RevenueItems
    THEN editorRevenueOf(rd, branchId, revenueTypeOf(code))
    ELSE cd[branchId][code]

(***************************************************************************)
(* State                                                                   *)
(*   budget view: monthlyRevenueData, assumptionsData,                     *)
(*     revenueTypeAssumptions, calculatedData, selectedBranch              *)
(*   editor: revenueData, edAssumptionsData, edRevenueTypeAssumptions,     *)
(*     edCalculatedData (the editor's assumptionsData,                     *)
(*     revenueTypeAssumptions and calculatedData)                          *)
(***************************************************************************)
VARIABLES monthlyRevenueData, assumptionsData, revenueTypeAssumptions, calculatedData,
          selectedBranch,
          revenueData, edAssumptionsData, edRevenueTypeAssumptions, edCalculatedData,
          \* the page that is open: "budget" or "editor"
          page,
          \* budget view: year and scenario of the load, the branch selector,
          \* version and publication state of the loaded assumptions
          currentYear, currentScenario, branchSelect,
          assumptionsVersion, assumptionsPublished,
          \* editor: the same
          edCurrentYear, edCurrentScenario, edAssumptionsVersion, edAssumptionsPublished,
          \* the requests in flight
          fetches,
          \* the step just taken: the status message it has shown (<<>> when
          \* none), whether it has rendered the table, written the worksheet
          \* and saved the session; what it rendered, wrote and saved is
          \* renderTable, worksheetOf and sessionDataOf of the state reached
          status, rendered, exported, saved,
          \* the year, scenario and branches of the most recent load request
          lastRequest,
          \* the position of calculateAllBranchValues when its loop over the
          \* months is followed call by call: <<>> when no such calculation is
          \* running, else <<the months not yet calculated>>
          pending,
          \* daily budget: the rows of the last calculation and the totals of
          \* its source, <<>> for null; the detail rows and the parameters of
          \* the calculation
          dailyBudgetData, sourceTotals, detailData, calculationParams,
          \* the browser: the user the session belongs to (<<>> for null),
          \* localStorage with its keys as DOMAIN, and Date.now()
          currentUser, localStorage, now,
          \* budget assumptions (app.js): its currentYear (0 for null) and
          \* currentScenario, currentData, pendingChanges and isNewYear, the
          \* year entered or selected (0 when none), saveAllBtn, how many times
          \* setupEventListeners has run, and the asynchronous functions that
          \* are waiting for a response
          appCurrentYear, appCurrentScenario, currentData, pendingChanges, isNewYear,
          yearInput, saveAllBtn, listeners, calls,
          \* app.js: the configuration, EmptyObject until it is loaded
          config,
          \* app.js: the input of one value cell of the table, its numbers in
          \* double precision; <<>> while no cell is followed
          valueInput

budgetControls ==
    <<currentYear, currentScenario, branchSelect, assumptionsVersion, assumptionsPublished>>

editorControls ==
    <<edCurrentYear, edCurrentScenario, edAssumptionsVersion, edAssumptionsPublished>>

outputs == <<status, rendered, exported, saved>>

dailyStores == <<dailyBudgetData, sourceTotals, detailData, calculationParams>>

browser == <<currentUser, localStorage, now>>

appState ==
    <<appCurrentYear, appCurrentScenario, currentData, pendingChanges, isNewYear,
      yearInput, saveAllBtn, listeners, calls, config>>

vars ==
    <<monthlyRevenueData, assumptionsData, revenueTypeAssumptions, calculatedData,
      selectedBranch,
      revenueData, edAssumptionsData, edRevenueTypeAssumptions, edCalculatedData,
      page, budgetControls, editorControls, fetches, outputs, lastRequest, pending,
      dailyStores, browser, appState, valueInput>>

budgetStores == <<monthlyRevenueData, assumptionsData, revenueTypeAssumptions>>

editorStores == <<revenueData, edAssumptionsData, edRevenueTypeAssumptions>>

\* {} : an object without keys
EmptyObject == <<>>

Restrict(f, S) == [x \in S |-> f[x]]

(***************************************************************************)
(* The engine on its own.  The data stores of both pages start with the    *)
(* same figures for one branch, drawn from the inputs below, and each      *)
(* page's calculation is applied to them.  An input that may be missing    *)
(* is <<>> (missing) or <<x>>.                                             *)
(***************************************************************************)
EngineBranches == {1, 6}

\* the scenario of the specification's section 8
ScenarioRevenue ==
    [IP |-> JNum(Num(100000)), OP |-> JNum(Num(50000)), ER |-> JNum(Num(10000))]

ScenarioDiscounts ==
    [DIS_REJECTION_MOH |-> Num(2), DIS_REJECTION_INS |-> Num(3),
     DIS_VOLUME |-> Num(1), DIS_EARLY_PAY |-> Normalise(5, 1)]

ScenarioAllocations ==
    [REV_TYPE_MOH |-> Num(40), REV_TYPE_INSURANCE |-> Num(50), REV_TYPE_CASH |-> Num(10)]

\* a month's revenue entry: missing, the scenario's, or one with a figure
\* sent as text, a null and a missing care type
RevenueInputs == {<<>>, <<ScenarioRevenue>>, <<[IP |-> JStr(Num(7)), ER |-> JNull]>>}

\* no discount, each one alone, both rejections, all four
DiscountInputs ==
    {Restrict(ScenarioDiscounts, S) :
        S \in {{}, SubRevenueItems, {"DIS_REJECTION_MOH", "DIS_REJECTION_INS"}}
              \cup {{code} : code \in SubRevenueItems}}

AllocationInputs ==
    {<<>>} \cup
    {<<Restrict(ScenarioAllocations, S)>> :
        S \in {{}, {"REV_TYPE_MOH"}, {"REV_TYPE_INSURANCE", "REV_TYPE_CASH"},
               DOMAIN ScenarioAllocations}}

NetItems == AssumptionItems \ SubRevenueItems

\* a revenue entry of zeros: as numbers, or as a text, a null and a zero
ZeroRevenueInputs ==
    {<<[t \in Range(RevenueTypes) |-> JNum(Zero)]>>,
     <<[IP |-> JStr(Zero), OP |-> JNull, ER |-> JNum(Zero)]>>}

ZeroAllocations == [code \in DOMAIN ScenarioAllocations |-> Zero]

\* position of a code in the catalog
IndexOf(code) == CHOOSE i \in 1 .. Len(LINE_ITEMS_CONFIG) : LINE_ITEMS_CONFIG[i] = code

\* every cost populated, each with a percentage of its own
AllCosts == [code \in NetItems |-> Normalise(IndexOf(code), 1)]

SingleCosts == {[c \in {code} |-> Num(10)] : code \in NetItems}

\* <<branch, revenue, discounts, costs, allocations, assumption set present>>
EngineInputs ==
    ({1} \X RevenueInputs \X DiscountInputs \X {EmptyObject, AllCosts}
        \X AllocationInputs \X {TRUE})
    \cup
    ({6} \X {<<ScenarioRevenue>>} \X {ScenarioDiscounts} \X SingleCosts
        \X {<<ScenarioAllocations>>} \X {TRUE})
    \cup
    (EngineBranches \X RevenueInputs \X {EmptyObject} \X {EmptyObject}
        \X AllocationInputs \X {FALSE})
    \cup
    ({1} \X ZeroRevenueInputs \X {[code \in SubRevenueItems |-> Zero]}
        \X {[code \in NetItems |-> Zero]}
        \X {<<>>, <<ZeroAllocations>>, <<ScenarioAllocations>>} \X {TRUE})

\* nothing shown, rendered, exported or saved
NoOutput == status = <<>> /\ rendered = FALSE /\ exported = FALSE /\ saved = FALSE

\* the controls of both pages as they are when the scripts have been read,
\* and no request made
\* daily-budget.js: the variables as the script declares them
DailyAtStart ==
    /\ dailyBudgetData = <<>>
    /\ detailData = <<>>
    /\ calculationParams = EmptyObject
    /\ sourceTotals = <<>>

\* app.js: the variables as the script declares them, no listener registered
\* and nothing loaded
AppAtStart ==
    /\ appCurrentYear = 0
    /\ appCurrentScenario = "most_likely"
    /\ currentData = <<>>
    /\ pendingChanges = EmptyObject
    /\ isNewYear = FALSE
    /\ yearInput = 0
    /\ saveAllBtn = [disabled |-> TRUE]
    /\ listeners = 0
    /\ calls = {}
    /\ config = EmptyObject
    /\ valueInput = <<>>

\* a browser without a session and with nothing stored
BrowserAtStart ==
    /\ currentUser = <<>>
    /\ localStorage = EmptyObject
    /\ now = 0

PagesAtStart ==
    /\ currentYear = 0     \* null
    /\ currentScenario = "most_likely"
    /\ assumptionsVersion = 0
    /\ assumptionsPublished = FALSE
    /\ edCurrentYear = 2027     \* new Date().getFullYear() + 1
    /\ edCurrentScenario = "most_likely"
    /\ edAssumptionsVersion = 0
    /\ edAssumptionsPublished = FALSE
    /\ fetches = {}
    /\ lastRequest = <<>>
    /\ pending = <<>>
    /\ DailyAtStart
    /\ AppAtStart
    /\ NoOutput

ControlsAtStart ==
    /\ BrowserAtStart
    /\ PagesAtStart

\* { [branch]: x } when x is there, {} when it is missing
BranchEntry(b, opt) == IF Len(opt) = 0 THEN EmptyObject ELSE b :> opt[1]

InitEngine ==
    \E in \in EngineInputs :
        LET b == in[1]
            pcts == [code \in DOMAIN in[3] \cup DOMAIN in[4] |->
                        [assumption_value |->
                            IF code \in DOMAIN in[3] THEN in[3][code] ELSE in[4][code]]]
            assumptions == IF in[6] THEN <<pcts>> ELSE <<>>
        IN  /\ page = "both"
            /\ ControlsAtStart
            /\ branchSelect = ToString(b)
            /\ selectedBranch = ToString(b)
            /\ monthlyRevenueData =
                  IF Len(in[2]) = 0 THEN EmptyObject
                  ELSE b :> [m \in Months |-> in[2][1]]
            /\ assumptionsData = BranchEntry(b, assumptions)
            /\ revenueTypeAssumptions = BranchEntry(b, in[5])
            /\ calculatedData = EmptyObject
            \* the editor holds the same amounts, as loadAllBranchesRevenue parses them
            /\ revenueData =
                  IF Len(in[2]) = 0 THEN EmptyObject
                  ELSE b :> [t \in Range(RevenueTypes) |-> revenueOf(in[2][1], t)]
            /\ edAssumptionsData = BranchEntry(b, assumptions)
            /\ edRevenueTypeAssumptions = BranchEntry(b, in[5])
            /\ edCalculatedData = EmptyObject

\* the budget view calculates: calculateAllBranchValues()
EngineCalculateBudget ==
    /\ DOMAIN calculatedData = {}
    /\ calculatedData' =
          calculateAllBranchValues(monthlyRevenueData, assumptionsData,
                                   revenueTypeAssumptions, calculatedData, selectedBranch)
    /\ UNCHANGED <<budgetStores, selectedBranch, editorStores, edCalculatedData,
                   page, pending, dailyStores, valueInput, browser, appState, budgetControls, editorControls, fetches, outputs, lastRequest>>

\* the editor calculates: calculateAllValues()
EngineCalculateEditor ==
    /\ DOMAIN edCalculatedData = {}
    /\ edCalculatedData' =
          calculateAllValues(revenueData, edAssumptionsData, edRevenueTypeAssumptions)
    /\ UNCHANGED <<budgetStores, selectedBranch, editorStores, calculatedData,
                   page, pending, dailyStores, valueInput, browser, appState, budgetControls, editorControls, fetches, outputs, lastRequest>>

NextEngine == EngineCalculateBudget \/ EngineCalculateEditor

SpecEngine == InitEngine /\ [][NextEngine]_vars

(***************************************************************************)
(* The API, as far as the two pages use it.  What it returns for a branch, *)
(* a year and a scenario is fixed, and differs with each of the three.     *)
(***************************************************************************)

\* the scenarios of a budget year
ScenarioOptions == {"most_likely", "best_case"}

\* the values of the year selector of the budget view: '' (Select Year) or a year
YearOptions == {""} \cup {ToString(y) : y \in Years}

\* the values of the branch selector the user picks
BranchOptions == {"all", "1", "2"}
SingleBranchOptions == BranchOptions \ {"all"}

\* the value of the scenario selector of the budget view
BudgetScenarioOptions == {"most_likely"}

\* the values of the year selector the user picks
BudgetYearOptions == {"", "2026"}
OverlapYearOptions == YearOptions \ {""}

\* the years the user enters in the editor
EditorYearOptions == {2027}

\* the branches whose requests may fail
FaultyBranches == {2}

\* how a request may end: a response with an OK status, a response with
\* another status, or no response (fetch rejects)
Outcomes(b) == IF b \in FaultyBranches THEN {"ok", "notOk", "error"} ELSE {"ok"}

\* the monthly revenue of a branch: branch 4 has figures for six months only,
\* branch 3 has no emergency figures, the outpatient figures come as text
MonthlyRevenueOf(b, year, scenario) ==
    [m \in (IF b = 4 THEN 1 .. 6 ELSE Months) |->
        [IP |-> JNum(Num(10 * b + m)),
         OP |-> JStr(Num(IF scenario = "best_case" THEN 30 ELSE 20)),
         ER |-> IF b = 3 THEN JNull ELSE JNum(Num(year - 2020))]]

\* GET /api/income-statement/revenue-monthly/{branch}/{year}?scenario= :
\* <<monthly_revenue>>, or <<>> when the body has none (branch 5 has no
\* budget)
ServerMonthlyRevenue(b, year, scenario) ==
    IF b = 5 THEN <<>> ELSE <<MonthlyRevenueOf(b, year, scenario)>>

RECURSIVE SumRevenue(_, _, _)
SumRevenue(monthly, type, m) ==
    IF m = 0 THEN Zero
    ELSE Add(SumRevenue(monthly, type, m - 1),
             IF m \in DOMAIN monthly THEN revenueOf(monthly[m], type) ELSE Zero)

\* GET /api/income-statement/revenue/{branch}/{year}?scenario= : <<revenue>>,
\* the year's revenue by care type, or <<>> when the body has none
ServerRevenue(b, year, scenario) ==
    IF b = 5 THEN <<>>
    ELSE <<[t \in Range(RevenueTypes) |->
              JNum(SumRevenue(MonthlyRevenueOf(b, year, scenario), t, 12))]>>

Item(code, percentage) == [line_item_code |-> code, assumption_percentage |-> percentage]

\* GET /api/income-statement/assumptions?year=&branch_id=&scenario= :
\* branch 6 has none saved; branch 3 holds a record in the older form, with
\* assumption_value, and one whose percentage is not a number
ServerAssumptions(b, year, scenario) ==
    [version |-> IF b = 6 THEN 0 ELSE b + (year - 2026),
     is_published |-> b = 1 /\ year = 2026,
     assumptions |->
        IF b = 6 THEN <<>>
        ELSE <<Item("DIS_REJECTION_MOH", JNum(Num(2))),
               Item("DIS_REJECTION_INS", JNum(Num(4))),
               Item("DIS_VOLUME", JStr(Num(1))),
               Item("DC_CONSUMABLES", JNum(Num(10 + (year - 2026)))),
               Item("GA_AUDIT", JNum(Num(b))),
               Item("OTHER_INCOME", JNum(Num(IF scenario = "best_case" THEN 5 ELSE 3))),
               Item("REV_TYPE_MOH", JNum(Num(50))),
               Item("REV_TYPE_INSURANCE", JStr(Num(25))),
               Item("REV_TYPE_CASH", JNum(Num(25)))>>
             \o (IF b = 3
                 THEN <<[line_item_code |-> "ZAKAT", assumption_percentage |-> JNull,
                         assumption_value |-> JNum(Num(2))],
                        Item("FINANCE_COST", JStr(NaN))>>
                 ELSE <<>>)]

\* item.assumption_percentage ?? item.assumption_value ?? 0
percentageOf(item) ==
    IF "assumption_percentage" \in DOMAIN item /\ item.assumption_percentage # JNull
    THEN item.assumption_percentage
    ELSE IF "assumption_value" \in DOMAIN item /\ item.assumption_value # JNull
         THEN item.assumption_value
         ELSE JNum(Zero)

\* assumptionsArray.forEach: the entries written to assumptionsData[branchId]
\* (a later item of the same code replaces an earlier one)
RECURSIVE assumptionsFrom(_, _)
assumptionsFrom(items, i) ==
    IF i = 0 THEN EmptyObject
    ELSE IF items[i].line_item_code \in Range(REVENUE_TYPE_CONFIG)
         THEN assumptionsFrom(items, i - 1)
         ELSE (items[i].line_item_code :>
                  [assumption_value |-> parseFloat(percentageOf(items[i]))])
              @@ assumptionsFrom(items, i - 1)

\* assumptionsArray.forEach: the entries written to revenueTypeAssumptions[branchId]
RECURSIVE revenueTypesFrom(_, _)
revenueTypesFrom(items, i) ==
    IF i = 0 THEN EmptyObject
    ELSE IF items[i].line_item_code \in Range(REVENUE_TYPE_CONFIG)
         THEN (items[i].line_item_code :> parseFloat(percentageOf(items[i])))
              @@ revenueTypesFrom(items, i - 1)
         ELSE revenueTypesFrom(items, i - 1)

\* a wrong variant of Put, the object holding this key alone afterwards
PutAlone(object, key, value) == key :> value

\* object[key] = value
Put(object, key, value) == (key :> value) @@ object

\* if (data.version && data.version > assumptionsVersion) assumptionsVersion = data.version
versionAfter(version, data) == IF data.version > version THEN data.version ELSE version

\* if (data.is_published) assumptionsPublished = true
publishedAfter(published, data) == published \/ data.is_published

(***************************************************************************)
(* Budget view: the table, the export and the session snapshot             *)
(***************************************************************************)
BRANCHES ==
    [b \in BRANCH_IDS |->
        CASE b = 1 -> "Riyadh" [] b = 2 -> "Khamis" [] b = 3 -> "Jazan"
          [] b = 4 -> "Qassem" [] b = 5 -> "Madinah" [] b = 6 -> "Abha"]

\* selectedBranch === 'all' ? 'All Branches' : BRANCHES[parseInt(selectedBranch)]
branchNameOf(sel) == IF sel = "all" THEN "All Branches" ELSE BRANCHES[parseInt(sel)]

\* calculatedData[branchId]?.[code]?.[`month_${month}`]
monthValueOf(cd, b, code, month) ==
    IF b \in DOMAIN cd /\ code \in DOMAIN cd[b] /\ month \in DOMAIN cd[b][code].month
    THEN cd[b][code].month[month]
    ELSE NaN

\* a wrong variant of monthTotalOf, without the `|| 0` on the value of a branch
RECURSIVE monthTotalOfUnguarded(_, _, _, _, _)
monthTotalOfUnguarded(cd, branches, code, month, b) ==
    IF b = 0 THEN Zero
    ELSE LET monthTotal == monthTotalOfUnguarded(cd, branches, code, month, b - 1)
         IN  IF b \in branches
             THEN Add(monthTotal, monthValueOf(cd, b, code, month))
             ELSE monthTotal

\* a wrong variant of monthTotalOf, the total over every branch up to b
RECURSIVE monthTotalOfEveryBranch(_, _, _, _, _)
monthTotalOfEveryBranch(cd, branches, code, month, b) ==
    IF b = 0 THEN Zero
    ELSE Add(monthTotalOfEveryBranch(cd, branches, code, month, b - 1),
             OrZero(monthValueOf(cd, b, code, month)))

\* monthTotal after branchesToShow.forEach has passed the branches up to b
RECURSIVE monthTotalOf(_, _, _, _, _)
monthTotalOf(cd, branches, code, month, b) ==
    IF b = 0 THEN Zero
    ELSE LET monthTotal == monthTotalOf(cd, branches, code, month, b - 1)
         IN  IF b \in branches
             THEN Add(monthTotal, OrZero(monthValueOf(cd, b, code, month)))
             ELSE monthTotal

\* a wrong variant of SumTotals, every month total rounded before it is added
RECURSIVE SumTotalsRounded(_, _)
SumTotalsRounded(monthTotal, m) ==
    IF m = 0 THEN Zero
    ELSE Add(SumTotalsRounded(monthTotal, m - 1),
             IF IsNaN(monthTotal[m]) THEN NaN
             ELSE Num((2 * monthTotal[m][1] + Pow10(monthTotal[m][2]))
                         \div (2 * Pow10(monthTotal[m][2]))))

\* fyTotal += monthTotal, for the months up to m
RECURSIVE SumTotals(_, _)
SumTotals(monthTotal, m) ==
    IF m = 0 THEN Zero ELSE Add(SumTotals(monthTotal, m - 1), monthTotal[m])

\* the month totals and the fyTotal of a line item over the branches shown,
\* as createDataRow and exportToExcel accumulate them
aggregateRow(cd, branches, code) ==
    LET monthTotal ==
            Eager([m \in Months |->
                    monthTotalOf(cd, branches, code, m, Cardinality(BRANCH_IDS))])
    IN  [month |-> monthTotal, fy_total |-> SumTotals(monthTotal, 12)]

\* the integer nearest to <<n, k>>, a tie going away from zero
RoundHalfExpand(x) ==
    LET unit == Pow10(x[2])
        magnitude == IF x[1] < 0 THEN 0 - x[1] ELSE x[1]
        whole == (magnitude \div unit) + (IF 2 * (magnitude % unit) >= unit THEN 1 ELSE 0)
    IN  IF x[1] < 0 THEN 0 - whole ELSE whole

\* formatCurrency(value): the number the text shows, without fraction digits
\* (the grouping of the digits and the sign of a zero are not kept); NaN
\* stands for the dash shown for a value that is not a number
formatCurrency(value) == IF IsNaN(value) THEN NaN ELSE Num(RoundHalfExpand(value))

\* Math.round(x): floor(x + 0.5)
MathRound(x) ==
    IF IsNaN(x) THEN NaN ELSE Num((2 * x[1] + Pow10(x[2])) \div (2 * Pow10(x[2])))

\* createDataRow(item): the texts of the twelve month cells and of the FY
\* Total cell
createDataRow(cd, sel, code) ==
    LET row == aggregateRow(cd, getSelectedBranches(sel), code)
    IN  [month |-> [m \in Months |-> formatCurrency(row.month[m])],
         fy_total |-> formatCurrency(row.fy_total)]

\* renderTable(): the data rows of the table body
renderTable(cd, sel) == Eager([code \in Codes |-> createDataRow(cd, sel, code)])

\* exportToExcel(): the data row of a line item, rowData.push(Math.round(...))
exportRow(cd, sel, code) ==
    LET row == aggregateRow(cd, getSelectedBranches(sel), code)
    IN  [month |-> [m \in Months |-> MathRound(row.month[m])],
         fy_total |-> MathRound(row.fy_total)]

\* exportToExcel(): the title and the data rows of the worksheet
worksheetOf(cd, sel, year, scenario) ==
    [title |-> <<branchNameOf(sel), year, scenario>>,
     rows |-> Eager([code \in Codes |-> exportRow(cd, sel, code)])]

\* JSON.stringify of a number: NaN and null are written as null, a finite
\* number as itself
toJSON(d) == IF d = null \/ IsNaN(d) THEN JNull ELSE JNum(d)

\* JSON.parse of what toJSON has written
fromJSON(v) == IF v = JNull THEN null ELSE v[2]

\* saveSessionData(): the object whose JSON text is written to sessionStorage
\* (the values of calculatedData are finite numbers, written as they are)
sessionDataOf(year, scenario, sel, mrd, ad, rta, cd) ==
    [currentYear |-> year, currentScenario |-> scenario, selectedBranch |-> sel,
     monthlyRevenueData |-> mrd,
     assumptionsData |->
        [b \in DOMAIN ad |->
            [code \in DOMAIN ad[b] |->
                [assumption_value |-> toJSON(ad[b][code].assumption_value)]]],
     revenueTypeAssumptions |->
        [b \in DOMAIN rta |-> [code \in DOMAIN rta[b] |-> toJSON(rta[b][code])]],
     calculatedData |-> cd]

Shown(type, message) == <<[type |-> type, message |-> message]>>

(***************************************************************************)
(* Budget view: loading.  loadBudget runs up to its await in one step;     *)
(* each loadBranchData it started goes on when the response to its request *)
(* arrives, and the step that ends the last of them also runs the rest of  *)
(* loadBudget.  A request records the load it belongs to and the year and  *)
(* scenario its URL was built with.                                        *)
(***************************************************************************)

\* the most requests in flight when loads overlap
MaxInFlight == 2

\* a load may start when nothing is in flight, and while requests are in
\* flight if its n requests leave their number within `limit`
CanStart(n, limit) == fetches = {} \/ Cardinality(fetches) + n <= limit

\* an identifier no load in flight has
NewLoad == CHOOSE i \in 1 .. Cardinality(fetches) + 1 : \A f \in fetches : f.load # i

Request(load, b, kind, year, scenario) ==
    [load |-> load, branch |-> b, kind |-> kind, year |-> year, scenario |-> scenario]

\* a wrong variant of LastOfLoad: no request is taken as the last one
LastOfLoadNever(f) == FALSE

\* the request f was the last one its load was waiting for
LastOfLoad(f) == \A g \in fetches \ {f} : g.load # f.load

Quiet == status' = <<>> /\ rendered' = FALSE /\ exported' = FALSE /\ saved' = FALSE

\* loadBudget() after `await Promise.all`, the stores being mrd, ad and rta
loadBudgetRest(mrd, ad, rta) ==
    IF DOMAIN mrd = {}
    THEN /\ calculatedData' = calculatedData
         /\ status' = Shown("error", "No budget data found for the selected criteria")
         /\ rendered' = FALSE
         /\ saved' = FALSE
    ELSE /\ calculatedData' =
              calculateAllBranchValues(mrd, ad, rta, calculatedData, selectedBranch)
         /\ rendered' = TRUE
         /\ saved' = TRUE
         /\ status' = Shown("success", "Loaded budget")

\* the branch selector is changed: selectedBranch = this.value
ChangeBranch(value) ==
    /\ page = "budget"
    /\ branchSelect' = value
    /\ selectedBranch' = value
    /\ Quiet
    /\ UNCHANGED <<budgetStores, calculatedData, currentYear, currentScenario,
                   assumptionsVersion, assumptionsPublished, fetches, lastRequest,
                   editorStores, edCalculatedData, editorControls, page, pending, dailyStores, valueInput, browser, appState>>

\* Load is clicked, the year and scenario selectors holding `year` and `scenario`
loadBudget(year, scenario, limit) ==
    /\ page = "budget"
    /\ selectedBranch' = branchSelect
    /\ IF year = ""
       THEN /\ status' = Shown("error", "Please select a year")
            /\ rendered' = FALSE /\ exported' = FALSE /\ saved' = FALSE
            /\ UNCHANGED <<budgetStores, calculatedData, currentYear, currentScenario,
                           assumptionsVersion, assumptionsPublished, fetches,
                           lastRequest>>
       ELSE LET branchesToLoad == getSelectedBranches(branchSelect)
                load == NewLoad
            IN  /\ CanStart(Cardinality(branchesToLoad), limit)
                /\ currentYear' = parseInt(year)
                /\ currentScenario' = scenario
                /\ monthlyRevenueData' = EmptyObject
                /\ assumptionsData' = EmptyObject
                /\ revenueTypeAssumptions' = EmptyObject
                /\ calculatedData' = EmptyObject
                /\ assumptionsVersion' = 0
                /\ assumptionsPublished' = FALSE
                /\ fetches' = fetches \cup
                      {Request(load, b, "revenue", parseInt(year), scenario) :
                          b \in branchesToLoad}
                /\ lastRequest' = <<[year |-> parseInt(year), scenario |-> scenario,
                                     branches |-> branchesToLoad]>>
                /\ Quiet
    /\ UNCHANGED <<branchSelect, editorStores, edCalculatedData, editorControls, page, pending, dailyStores, valueInput, browser, appState>>

\* loadBranchData(branchId): the response to its revenue request arrives
revenueLoaded(f, outcome) ==
    /\ page = "budget"
    /\ f.kind = "revenue"
    /\ LET b == f.branch
           data == ServerMonthlyRevenue(b, f.year, f.scenario)
           mrd == IF outcome = "ok" /\ Len(data) > 0
                  THEN Put(monthlyRevenueData, b, data[1])
                  ELSE monthlyRevenueData
       IN  /\ monthlyRevenueData' = mrd
           /\ IF outcome = "error"
              THEN \* caught: loadBranchData returns
                   /\ fetches' = fetches \ {f}
                   /\ IF LastOfLoad(f)
                      THEN loadBudgetRest(mrd, assumptionsData, revenueTypeAssumptions)
                           /\ exported' = FALSE
                      ELSE Quiet /\ calculatedData' = calculatedData
              ELSE /\ fetches' = (fetches \ {f}) \cup
                         {Request(f.load, b, "assumptions", currentYear, currentScenario)}
                   /\ Quiet
                   /\ calculatedData' = calculatedData
    /\ UNCHANGED <<assumptionsData, revenueTypeAssumptions, selectedBranch,
                   budgetControls, lastRequest,
                   editorStores, edCalculatedData, editorControls, page, pending, dailyStores, valueInput, browser, appState>>

\* loadBranchData(branchId): the response to its assumptions request arrives
assumptionsLoaded(f, outcome) ==
    /\ page = "budget"
    /\ f.kind = "assumptions"
    /\ LET b == f.branch
           data == ServerAssumptions(b, f.year, f.scenario)
           items == data.assumptions
           ad == IF outcome = "ok"
                 THEN Put(assumptionsData, b, assumptionsFrom(items, Len(items)))
                 ELSE assumptionsData
           rta == IF outcome = "ok"
                  THEN Put(revenueTypeAssumptions, b, revenueTypesFrom(items, Len(items)))
                  ELSE revenueTypeAssumptions
       IN  /\ assumptionsData' = ad
           /\ revenueTypeAssumptions' = rta
           /\ assumptionsVersion' =
                 IF outcome = "ok" THEN versionAfter(assumptionsVersion, data)
                 ELSE assumptionsVersion
           /\ assumptionsPublished' =
                 IF outcome = "ok" THEN publishedAfter(assumptionsPublished, data)
                 ELSE assumptionsPublished
           /\ fetches' = fetches \ {f}
           /\ IF LastOfLoad(f)
              THEN loadBudgetRest(monthlyRevenueData, ad, rta) /\ exported' = FALSE
              ELSE Quiet /\ calculatedData' = calculatedData
    /\ UNCHANGED <<monthlyRevenueData, selectedBranch, currentYear, currentScenario,
                   branchSelect, lastRequest,
                   editorStores, edCalculatedData, editorControls, page, pending, dailyStores, valueInput, browser, appState>>

\* Export is clicked
exportToExcel ==
    /\ page = "budget"
    /\ IF DOMAIN calculatedData = {}
       THEN /\ exported' = FALSE
            /\ status' = Shown("error", "No data to export. Please load budget data first.")
       ELSE /\ exported' = TRUE
            /\ status' = Shown("success", "Exported")
    /\ rendered' = FALSE
    /\ saved' = FALSE
    /\ UNCHANGED <<budgetStores, calculatedData, selectedBranch, budgetControls, fetches,
                   lastRequest, editorStores, edCalculatedData, editorControls, page, pending, dailyStores, valueInput, browser, appState>>

(***************************************************************************)
(* Editor: loading.  loadData starts loadAllBranchesRevenue, which sends   *)
(* six requests; the step that takes the last response starts              *)
(* loadAllBranchesAssumptions, which sends six more; the step that takes   *)
(* the last of these runs the rest of loadData.                            *)
(***************************************************************************)

\* what loadAllBranchesRevenue stores for a branch:
\* { IP: parseFloat(data.revenue.IP) || 0, ... }, or zeros without
\* data.revenue, on a status that is not OK and on an error
editorRevenueFrom(data, outcome) ==
    [t \in Range(RevenueTypes) |->
        IF outcome = "ok" /\ Len(data) > 0 THEN revenueOf(data[1], t) ELSE Zero]

\* the value shown in the cell of a branch: the raw revenue (createTableRow)
\* or calculatedData[branchId]?.[item.code] || 0 (updateCalculatedUI)
editorCellValue(rd, cd, b, code) ==
    IF code \in RevenueItems THEN editorRevenueOf(rd, b, revenueTypeOf(code))
    ELSE OrZero(IF b \in DOMAIN cd /\ code \in DOMAIN cd[b] THEN cd[b][code] ELSE NaN)

\* total += ..., over the branches up to b
RECURSIVE editorTotalOf(_, _, _, _)
editorTotalOf(rd, cd, code, b) ==
    IF b = 0 THEN Zero
    ELSE Add(editorTotalOf(rd, cd, code, b - 1), editorCellValue(rd, cd, b, code))

\* the cells renderTable and updateCalculatedUI fill, for the raw revenue and
\* the calculated items: one per branch, and the FY total over the branches
editorCellsOf(rd, cd) ==
    Eager([code \in RevenueItems \cup CalculatedItems |->
        [branch |-> [b \in BRANCH_IDS |-> formatCurrency(editorCellValue(rd, cd, b, code))],
         fy_total |->
            formatCurrency(editorTotalOf(rd, cd, code, Cardinality(BRANCH_IDS)))]])

\* saveSessionData() of the editor: the object whose JSON text is written
editorSessionDataOf(year, scenario, rd, rta, ad, cd) ==
    [currentYear |-> year, currentScenario |-> scenario, revenueData |-> rd,
     revenueTypeAssumptions |->
        [b \in DOMAIN rta |-> [code \in DOMAIN rta[b] |-> toJSON(rta[b][code])]],
     assumptionsData |->
        [b \in DOMAIN ad |->
            [code \in DOMAIN ad[b] |->
                [assumption_value |-> toJSON(ad[b][code].assumption_value)]]],
     calculatedData |-> cd]

\* loadData(): up to the await in loadAllBranchesRevenue, for the scenario given
loadDataStart(scenario) ==
    /\ CanStart(Cardinality(BRANCH_IDS), 0)
    /\ revenueData' = EmptyObject
    /\ fetches' = fetches \cup
          {Request(NewLoad, b, "revenue", edCurrentYear, scenario) : b \in BRANCH_IDS}
    /\ lastRequest' = <<[year |-> edCurrentYear, scenario |-> scenario,
                         branches |-> BRANCH_IDS]>>
    /\ UNCHANGED <<edAssumptionsData, edRevenueTypeAssumptions, edCalculatedData,
                   edAssumptionsVersion, edAssumptionsPublished>>

\* Load is clicked in the editor
loadData ==
    /\ page = "editor"
    /\ loadDataStart(edCurrentScenario)
    /\ Quiet
    /\ UNCHANGED <<edCurrentYear, edCurrentScenario,
                   budgetStores, calculatedData, selectedBranch, budgetControls, page, pending, dailyStores, valueInput, browser, appState>>

\* the year input or the year selector of the editor is changed
changeYear(year) ==
    /\ page = "editor"
    /\ edCurrentYear' = year
    /\ Quiet
    /\ UNCHANGED <<editorStores, edCalculatedData, edCurrentScenario,
                   edAssumptionsVersion, edAssumptionsPublished, fetches, lastRequest,
                   budgetStores, calculatedData, selectedBranch, budgetControls, page, pending, dailyStores, valueInput, browser, appState>>

\* the scenario selector of the editor is changed: the data is loaded again
\* if revenue is held
changeScenario(scenario) ==
    /\ page = "editor"
    /\ edCurrentScenario' = scenario
    /\ IF DOMAIN revenueData # {}
       THEN loadDataStart(scenario)
       ELSE UNCHANGED <<editorStores, edCalculatedData, edAssumptionsVersion,
                        edAssumptionsPublished, fetches, lastRequest>>
    /\ Quiet
    /\ UNCHANGED <<edCurrentYear,
                   budgetStores, calculatedData, selectedBranch, budgetControls, page, pending, dailyStores, valueInput, browser, appState>>

\* loadAllBranchesRevenue(): the response for a branch arrives; after the last
\* one loadAllBranchesAssumptions() resets its stores and sends its requests
editorRevenueLoaded(f, outcome) ==
    /\ page = "editor"
    /\ f.kind = "revenue"
    /\ revenueData' =
          Put(revenueData, f.branch,
              editorRevenueFrom(ServerRevenue(f.branch, f.year, f.scenario), outcome))
    /\ IF LastOfLoad(f)
       THEN /\ edAssumptionsData' = EmptyObject
            /\ edRevenueTypeAssumptions' = EmptyObject
            /\ edAssumptionsVersion' = 0
            /\ edAssumptionsPublished' = FALSE
            /\ fetches' = (fetches \ {f}) \cup
                  {Request(f.load, b, "assumptions", edCurrentYear, edCurrentScenario) :
                      b \in BRANCH_IDS}
       ELSE /\ fetches' = fetches \ {f}
            /\ UNCHANGED <<edAssumptionsData, edRevenueTypeAssumptions,
                           edAssumptionsVersion, edAssumptionsPublished>>
    /\ Quiet
    /\ UNCHANGED <<edCalculatedData, edCurrentYear, edCurrentScenario, lastRequest,
                   budgetStores, calculatedData, selectedBranch, budgetControls, page, pending, dailyStores, valueInput, browser, appState>>

\* loadAllBranchesAssumptions(): the response for a branch arrives; after the
\* last one loadData() renders, calculates and saves the session
editorAssumptionsLoaded(f, outcome) ==
    /\ page = "editor"
    /\ f.kind = "assumptions"
    /\ LET b == f.branch
           data == ServerAssumptions(b, f.year, f.scenario)
           items == data.assumptions
           ad == CASE outcome = "ok" ->
                        Put(edAssumptionsData, b, assumptionsFrom(items, Len(items)))
                   [] outcome = "error" -> Put(edAssumptionsData, b, EmptyObject)
                   [] OTHER -> edAssumptionsData
           rta == CASE outcome = "ok" ->
                        Put(edRevenueTypeAssumptions, b, revenueTypesFrom(items, Len(items)))
                    [] outcome = "error" -> Put(edRevenueTypeAssumptions, b, EmptyObject)
                    [] OTHER -> edRevenueTypeAssumptions
       IN  /\ edAssumptionsData' = ad
           /\ edRevenueTypeAssumptions' = rta
           /\ edAssumptionsVersion' =
                 IF outcome = "ok" THEN versionAfter(edAssumptionsVersion, data)
                 ELSE edAssumptionsVersion
           /\ edAssumptionsPublished' =
                 IF outcome = "ok" THEN publishedAfter(edAssumptionsPublished, data)
                 ELSE edAssumptionsPublished
           /\ fetches' = fetches \ {f}
           /\ IF LastOfLoad(f)
              THEN /\ edCalculatedData' = calculateAllValues(revenueData, ad, rta)
                   /\ rendered' = TRUE
                   /\ saved' = TRUE
                   /\ status' = <<>>
                   /\ exported' = FALSE
              ELSE Quiet /\ edCalculatedData' = edCalculatedData
    /\ UNCHANGED <<revenueData, edCurrentYear, edCurrentScenario, lastRequest,
                   budgetStores, calculatedData, selectedBranch, budgetControls, page, pending, dailyStores, valueInput, browser, appState>>

(***************************************************************************)
(* Editor: saving.  saveAssumptions builds its records from the stores and *)
(* from currentYear and currentScenario and waits for the answer to its    *)
(* POST; the request in flight records the year and the scenario its       *)
(* records carry.                                                          *)
(***************************************************************************)

\* allAssumptions: the records of the POST
allAssumptions(ad, rta, cd, year, scenario) ==
    {[line_item_code |-> code, branch_id |-> b, year |-> year, scenario |-> scenario,
      assumption_value |-> assumptionPct(ad, b, code),
      calculated_value |-> OrZero(IF b \in DOMAIN cd /\ code \in DOMAIN cd[b]
                                  THEN cd[b][code] ELSE NaN)] :
        b \in BRANCH_IDS, code \in AssumptionItems}
    \cup
    {[line_item_code |-> code, branch_id |-> b, year |-> year, scenario |-> scenario,
      assumption_value |-> revTypePct(rta, b, code), calculated_value |-> Zero] :
        b \in BRANCH_IDS, code \in Range(REVENUE_TYPE_CONFIG)}

\* the years the user enters before saving
SavingYearOptions == {2027, 2028}

\* Save Draft or Publish is clicked while nothing is in flight
saveAssumptions(publish) ==
    /\ page = "editor"
    /\ fetches = {}
    /\ fetches' = {Request(NewLoad, 0, "save", edCurrentYear, edCurrentScenario)}
    /\ Quiet
    /\ UNCHANGED <<editorStores, edCalculatedData, editorControls, lastRequest,
                   budgetStores, calculatedData, selectedBranch, budgetControls, page,
                   pending, dailyStores, valueInput, browser, appState>>

\* the POST of saveAssumptions is answered
assumptionsSaved(f, ok) ==
    /\ page = "editor"
    /\ f.kind = "save"
    /\ fetches' = fetches \ {f}
    /\ status' = IF ok THEN Shown("success", "Assumptions saved successfully!")
                 ELSE Shown("error", "Failed to save assumptions. Please try again.")
    /\ rendered' = FALSE
    /\ exported' = FALSE
    /\ saved' = FALSE
    /\ UNCHANGED <<editorStores, edCalculatedData, editorControls, lastRequest,
                   budgetStores, calculatedData, selectedBranch, budgetControls, page,
                   pending, dailyStores, valueInput, browser, appState>>

(***************************************************************************)
(* Editor: the inputs of the table.  Both pages hold what they stored of   *)
(* the same assumptions response for one branch; percentages are then      *)
(* typed into inputs of the editor.                                        *)
(***************************************************************************)

\* a percentage of a response: a number, or a text that is no number
LoadedPercentages == {JNum(Num(10)), JStr(NaN)}

\* the responses: two discounts, a direct cost and an allocation
EntryResponses ==
    {<<Item("DIS_REJECTION_MOH", d), Item("DIS_VOLUME", d),
       Item("DC_CONSUMABLES", c), Item("REV_TYPE_MOH", a)>> :
        d \in LoadedPercentages, c \in LoadedPercentages, a \in LoadedPercentages}

\* the text of an input: one that parses to 15, one that parses to no number
EnteredTexts == {JStr(Num(15)), JStr(NaN)}

\* the inputs typed into
EntryItems == {"DIS_VOLUME", "DC_CONSUMABLES"}
EntryRevenueTypes == {"REV_TYPE_MOH"}

\* parseFloat(this.value) || 0
enteredValue(text) == OrZero(parseFloat(text))

\* object[key], or {} when it is missing
EntryOf(object, key) == IF key \in DOMAIN object THEN object[key] ELSE EmptyObject

InitEntry ==
    \E items \in EntryResponses :
        LET b == 1
        IN  /\ page = "both"
            /\ ControlsAtStart
            /\ branchSelect = ToString(b)
            /\ selectedBranch = ToString(b)
            /\ monthlyRevenueData = b :> [m \in Months |-> ScenarioRevenue]
            /\ assumptionsData = b :> assumptionsFrom(items, Len(items))
            /\ revenueTypeAssumptions = b :> revenueTypesFrom(items, Len(items))
            /\ calculatedData = EmptyObject
            /\ revenueData =
                  b :> [t \in Range(RevenueTypes) |-> revenueOf(ScenarioRevenue, t)]
            /\ edAssumptionsData = b :> assumptionsFrom(items, Len(items))
            /\ edRevenueTypeAssumptions = b :> revenueTypesFrom(items, Len(items))
            /\ edCalculatedData = EmptyObject

\* onAssumptionChange(branchId, itemCode, parseFloat(this.value) || 0), on
\* the change or input event of an assumption input holding `text`
onAssumptionChange(branchId, itemCode, text) ==
    LET ad == Put(edAssumptionsData, branchId,
                  Put(EntryOf(edAssumptionsData, branchId), itemCode,
                      [assumption_value |-> enteredValue(text)]))
    IN  /\ edAssumptionsData' = ad
        /\ edCalculatedData' = calculateAllValues(revenueData, ad, edRevenueTypeAssumptions)
        /\ rendered' = TRUE
        /\ saved' = TRUE
        /\ status' = <<>>
        /\ exported' = FALSE
        /\ UNCHANGED <<revenueData, edRevenueTypeAssumptions, editorControls,
                       budgetStores, calculatedData, selectedBranch, budgetControls,
                       fetches, lastRequest, page, pending, dailyStores, valueInput, browser, appState>>

\* onRevenueTypeChange(branchId, revTypeCode, parseFloat(this.value) || 0), on
\* the change or input event of an allocation input holding `text`
onRevenueTypeChange(branchId, revTypeCode, text) ==
    LET rta == Put(edRevenueTypeAssumptions, branchId,
                   Put(EntryOf(edRevenueTypeAssumptions, branchId), revTypeCode,
                       enteredValue(text)))
    IN  /\ edRevenueTypeAssumptions' = rta
        /\ edCalculatedData' = calculateAllValues(revenueData, edAssumptionsData, rta)
        /\ rendered' = TRUE
        /\ saved' = TRUE
        /\ status' = <<>>
        /\ exported' = FALSE
        /\ UNCHANGED <<revenueData, edAssumptionsData, editorControls,
                       budgetStores, calculatedData, selectedBranch, budgetControls,
                       fetches, lastRequest, page, pending, dailyStores, valueInput, browser, appState>>

NextEntry ==
    \/ EngineCalculateBudget
    \/ EngineCalculateEditor
    \/ \E code \in EntryItems : \E text \in EnteredTexts : onAssumptionChange(1, code, text)
    \/ \E code \in EntryRevenueTypes : \E text \in EnteredTexts :
          onRevenueTypeChange(1, code, text)

SpecEntry == InitEntry /\ [][NextEntry]_vars

(***************************************************************************)
(* The budget calculation followed call by call.  calculateAllBranchValues *)
(* has calculated every selected branch but the last; for the last one it  *)
(* creates the entry, calls calculateMonthValues once for every month and  *)
(* adds up the fiscal year.  The code makes the twelve calls in ascending   *)
(* order; here the next call is for the first or for the last of the       *)
(* months still to do: the order of the code, the descending order and     *)
(* every mixture of the two.                                               *)
(***************************************************************************)
PeriodRevenue(b) ==
    [m \in Months |->
        [IP |-> JNum(Num(100 * b + m)), OP |-> JStr(Num(50 + b)), ER |-> JNum(Num(m * m))]]

PeriodItems(b) == ServerAssumptions(IF b = 6 THEN 3 ELSE b, 2026, "most_likely").assumptions

LastBranch == CHOOSE b \in BRANCH_IDS : \A c \in BRANCH_IDS : c <= b

PeriodSelections == {"all", ToString(LastBranch)}

Least(S) == CHOOSE m \in S : \A n \in S : m <= n

Greatest(S) == CHOOSE m \in S : \A n \in S : n <= m

InitPeriods ==
    /\ page = "budget"
    /\ ControlsAtStart
    /\ branchSelect \in PeriodSelections
    /\ selectedBranch = branchSelect
    /\ monthlyRevenueData = [b \in BRANCH_IDS |-> PeriodRevenue(b)]
    /\ assumptionsData =
          [b \in BRANCH_IDS |-> assumptionsFrom(PeriodItems(b), Len(PeriodItems(b)))]
    /\ revenueTypeAssumptions =
          [b \in BRANCH_IDS |-> revenueTypesFrom(PeriodItems(b), Len(PeriodItems(b)))]
    /\ calculatedData =
          [b \in getSelectedBranches(selectedBranch) \ {LastBranch} |->
              calculateBranchValues(monthlyRevenueData, assumptionsData,
                                    revenueTypeAssumptions, b)]
    /\ revenueData = EmptyObject
    /\ edAssumptionsData = EmptyObject
    /\ edRevenueTypeAssumptions = EmptyObject
    /\ edCalculatedData = EmptyObject

\* calculateAllBranchValues, the start of the turn of branch `branchId`: every
\* month and the fiscal year of every item are set to 0
startBranch(branchId) ==
    /\ pending = <<>>
    /\ branchId \in getSelectedBranches(selectedBranch) \ DOMAIN calculatedData
    /\ calculatedData' =
          Put(calculatedData, branchId,
              [code \in Codes |-> [month |-> [m \in Months |-> Zero], fy_total |-> Zero]])
    /\ pending' = <<branchId, Months>>
    /\ UNCHANGED <<budgetStores, selectedBranch, editorStores, edCalculatedData,
                   page, dailyStores, valueInput, browser, appState, budgetControls, editorControls, fetches, outputs, lastRequest>>

\* calculateMonthValues(branchId, month), called on the entry of the branch
calculateMonth(branchId, month) ==
    /\ pending # <<>>
    /\ branchId = pending[1]
    /\ month \in pending[2]
    /\ month \in {Least(pending[2]), Greatest(pending[2])}
    /\ LET values == calculateMonthValues(monthlyRevenueData, assumptionsData,
                                          revenueTypeAssumptions, branchId, month)
       IN  calculatedData' =
              [calculatedData EXCEPT ![branchId] =
                  [code \in Codes |-> [@[code] EXCEPT !.month[month] = values[code]]]]
    /\ pending' = <<branchId, pending[2] \ {month}>>
    /\ UNCHANGED <<budgetStores, selectedBranch, editorStores, edCalculatedData,
                   page, dailyStores, valueInput, browser, appState, budgetControls, editorControls, fetches, outputs, lastRequest>>

\* calculateAllBranchValues, the end of the turn of the branch: the fiscal
\* year of every item is the sum of its months
calculateTotals(branchId) ==
    /\ pending = <<branchId, {}>>
    /\ calculatedData' =
          [calculatedData EXCEPT ![branchId] =
              [code \in Codes |->
                  [@[code] EXCEPT
                      !.fy_total = SumMonths(calculatedData[branchId][code].month, 12)]]]
    /\ pending' = <<>>
    /\ UNCHANGED <<budgetStores, selectedBranch, editorStores, edCalculatedData,
                   page, dailyStores, valueInput, browser, appState, budgetControls, editorControls, fetches, outputs, lastRequest>>

NextPeriods ==
    \/ \E b \in BRANCH_IDS : startBranch(b)
    \/ \E b \in BRANCH_IDS, m \in Months : calculateMonth(b, m)
    \/ \E b \in BRANCH_IDS : calculateTotals(b)

SpecPeriods == InitPeriods /\ [][NextPeriods]_vars

(***************************************************************************)
(* The budget view restored from a session.  When the script of the page   *)
(* has run, restoreSessionData has taken the selection and calculatedData  *)
(* from the stored session and has rendered the table.  The stored entry   *)
(* of a branch may be absent, complete, without a line item or without a   *)
(* month; a stored null is a value that is not a number.                   *)
(***************************************************************************)
EntryKinds == {"absent", "complete", "noLineItem", "noMonth"}

StoredBranches == {1, 2}

StoredSelections == {"all", "1", "2", "3"}

StoredValue(b, code, m) ==
    IF b = 2 /\ code = "ZAKAT" THEN NaN
    ELSE IF code = "REV_NET" THEN <<10 * (100 * b + m) + 2 * b + 1, 1>>
    ELSE Num(10 * b + m)

StoredEntry(b, kind) ==
    [code \in (IF kind = "noLineItem" THEN Codes \ {"REV_NET"} ELSE Codes) |->
        LET month ==
                [m \in (IF kind = "noMonth" THEN Months \ {3} ELSE Months) |->
                    StoredValue(b, code, m)]
        IN  [month |-> month, fy_total |-> Num(b)]]

StoredTables ==
    {[b \in {c \in StoredBranches : kind[c] # "absent"} |-> StoredEntry(b, kind[b])] :
        kind \in [StoredBranches -> EntryKinds]}

InitRestore ==
    \E stored \in StoredTables : \E selection \in StoredSelections :
        /\ page = "budget"
        /\ branchSelect = selection
        /\ selectedBranch = selection
        /\ currentYear = 0
        /\ currentScenario = "most_likely"
        /\ assumptionsVersion = 0
        /\ assumptionsPublished = FALSE
        /\ edCurrentYear = 2027
        /\ edCurrentScenario = "most_likely"
        /\ edAssumptionsVersion = 0
        /\ edAssumptionsPublished = FALSE
        /\ fetches = {}
        /\ lastRequest = <<>>
        /\ pending = <<>>
        /\ DailyAtStart
        /\ BrowserAtStart
        /\ AppAtStart
        /\ monthlyRevenueData = EmptyObject
        /\ assumptionsData = EmptyObject
        /\ revenueTypeAssumptions = EmptyObject
        /\ calculatedData = stored
        /\ revenueData = EmptyObject
        /\ edAssumptionsData = EmptyObject
        /\ edRevenueTypeAssumptions = EmptyObject
        /\ edCalculatedData = EmptyObject
        /\ status = <<>>
        /\ rendered = (DOMAIN stored # {})
        /\ exported = FALSE
        /\ saved = FALSE

NextRestore ==
    \/ \E value \in BranchOptions : ChangeBranch(value)
    \/ exportToExcel

SpecRestore == InitRestore /\ [][NextRestore]_vars

(***************************************************************************)
(* The pages.  The script of the page has run and found no session to      *)
(* restore.                                                                *)
(***************************************************************************)
StoresAtStart ==
    /\ monthlyRevenueData = EmptyObject
    /\ assumptionsData = EmptyObject
    /\ revenueTypeAssumptions = EmptyObject
    /\ calculatedData = EmptyObject
    /\ revenueData = EmptyObject
    /\ edAssumptionsData = EmptyObject
    /\ edRevenueTypeAssumptions = EmptyObject
    /\ edCalculatedData = EmptyObject

\* The budget view, a load being started when none is in progress: the user
\* changes the branch, loads, exports, and the responses arrive in any order.
InitBudget ==
    /\ page = "budget"
    /\ selectedBranch = "all"
    /\ branchSelect = "all"
    /\ StoresAtStart
    /\ ControlsAtStart

NextBudget ==
    \/ \E value \in BranchOptions : ChangeBranch(value)
    \/ \E year \in BudgetYearOptions : \E scenario \in BudgetScenarioOptions :
          loadBudget(year, scenario, 0)
    \/ \E f \in fetches : \E outcome \in Outcomes(f.branch) : revenueLoaded(f, outcome)
    \/ \E f \in fetches : \E outcome \in Outcomes(f.branch) : assumptionsLoaded(f, outcome)
    \/ exportToExcel

SpecBudget == InitBudget /\ [][NextBudget]_vars

\* The budget view with one branch selected, a load being started while the
\* requests of another are in flight.
InitOverlap ==
    /\ page = "budget"
    /\ selectedBranch = "1"
    /\ branchSelect = "1"
    /\ StoresAtStart
    /\ ControlsAtStart

NextOverlap ==
    \/ \E value \in SingleBranchOptions : ChangeBranch(value)
    \/ \E year \in OverlapYearOptions : \E scenario \in BudgetScenarioOptions :
          loadBudget(year, scenario, MaxInFlight)
    \/ \E f \in fetches : revenueLoaded(f, "ok")
    \/ \E f \in fetches : assumptionsLoaded(f, "ok")

SpecOverlap == InitOverlap /\ [][NextOverlap]_vars

\* The assumptions editor.
InitEditor ==
    /\ page = "editor"
    /\ selectedBranch = "all"
    /\ branchSelect = "all"
    /\ StoresAtStart
    /\ ControlsAtStart

NextEditor ==
    \/ loadData
    \/ \E year \in EditorYearOptions : changeYear(year)
    \/ \E scenario \in ScenarioOptions : changeScenario(scenario)
    \/ \E f \in fetches : \E outcome \in Outcomes(f.branch) : editorRevenueLoaded(f, outcome)
    \/ \E f \in fetches : \E outcome \in Outcomes(f.branch) : editorAssumptionsLoaded(f, outcome)

SpecEditor == InitEditor /\ [][NextEditor]_vars

\* Either page, a load being started when none is in progress.
InitPages == InitBudget \/ InitEditor

NextPages == NextBudget \/ NextEditor

SpecPages == InitPages /\ [][NextPages]_vars

\* The editor with its year changed between loads and saves; every request
\* is answered.
NextSaving ==
    \/ loadData
    \/ \E year \in SavingYearOptions : changeYear(year)
    \/ \E scenario \in ScenarioOptions : changeScenario(scenario)
    \/ \E f \in fetches : editorRevenueLoaded(f, "ok")
    \/ \E f \in fetches : editorAssumptionsLoaded(f, "ok")
    \/ \E publish \in BOOLEAN : saveAssumptions(publish)
    \/ \E f \in fetches : \E ok \in BOOLEAN : assumptionsSaved(f, ok)

SpecSaving == InitEditor /\ [][NextSaving]_vars

(***************************************************************************)
(* The daily budget.  The server redistributes every monthly figure of its *)
(* source over the days of the month by the weights of the days, the       *)
(* remainder going to the last day; the page keeps the rows and the totals *)
(* of the source it receives and shows the summary.                        *)
(***************************************************************************)
MaxSources == 2

\* the weights of the days of a month
DailyWeights == <<3, 2, 2>>

\* the monthly figures of the source, by month and stay type; a cost per
\* episode may be null
Sources ==
    {[month |-> 1, stay_type |-> "LTC",
      figures |-> [revenue |-> 100, census |-> 10, episodes |-> 7, cpe |-> Num(30)]],
     [month |-> 1, stay_type |-> "LTC",
      figures |-> [revenue |-> 250, census |-> 5, episodes |-> 3, cpe |-> Num(45)]],
     [month |-> 2, stay_type |-> "Non-LTC",
      figures |-> [revenue |-> 101, census |-> 7, episodes |-> 0, cpe |-> NaN]],
     [month |-> 2, stay_type |-> "OP",
      figures |-> [revenue |-> 100, census |-> 10, episodes |-> 7, cpe |-> Num(30)]],
     [month |-> 1, stay_type |-> "OP",
      figures |-> [revenue |-> 101, census |-> 7, episodes |-> 0, cpe |-> NaN]]}

SourceLists == UNION {[1 .. n -> Sources] : n \in 0 .. MaxSources}

RECURSIVE SumWeights(_)
SumWeights(d) == IF d = 0 THEN 0 ELSE SumWeights(d - 1) + DailyWeights[d]

RECURSIVE SharesBefore(_, _)
SharesBefore(total, d) ==
    IF d <= 1 THEN 0
    ELSE SharesBefore(total, d - 1)
            + (total * DailyWeights[d - 1]) \div SumWeights(Len(DailyWeights))

\* the share of day d in a monthly total
Share(total, d) ==
    IF d < Len(DailyWeights)
    THEN (total * DailyWeights[d]) \div SumWeights(Len(DailyWeights))
    ELSE total - SharesBefore(total, d)

dailyRowsOf(source) ==
    [d \in 1 .. Len(DailyWeights) |->
        [month |-> source.month, day |-> d, stay_type |-> source.stay_type,
         revenue |-> Num(Share(source.figures.revenue, d)),
         census |-> Num(Share(source.figures.census, d)),
         episodes |-> Num(Share(source.figures.episodes, d)),
         cpe |-> source.figures.cpe]]

RECURSIVE dailyBudgetOf(_)
dailyBudgetOf(sources) ==
    IF sources = <<>> THEN <<>>
    ELSE dailyRowsOf(Head(sources)) \o dailyBudgetOf(Tail(sources))

RECURSIVE SumSources(_, _, _)
SumSources(sources, field, n) ==
    IF n = 0 THEN 0 ELSE SumSources(sources, field, n - 1) + sources[n].figures[field]

sourceTotalsOf(sources) ==
    [revenue |-> Num(SumSources(sources, "revenue", Len(sources))),
     census |-> Num(SumSources(sources, "census", Len(sources)))]

\* dailyBudgetData.reduce((sum, row) => sum + (row[field] || 0), 0), for the
\* first n rows
RECURSIVE SumRows(_, _, _)
SumRows(rows, field, n) ==
    IF n = 0 THEN Zero ELSE Add(SumRows(rows, field, n - 1), OrZero(rows[n][field]))

\* a wrong variant of summaryTotal, the census read for every field
summaryTotalOfCensus(dbd, totals, field) ==
    IF totals # <<>> THEN OrZero(totals[1]["census"]) ELSE SumRows(dbd, "census", Len(dbd))

\* updateSummaryCards: totalRevenue and totalCensus
summaryTotal(dbd, totals, field) ==
    IF totals # <<>> THEN OrZero(totals[1][field]) ELSE SumRows(dbd, field, Len(dbd))

\* row.stay_type || 'Unknown'
stayTypeOf(row) == IF row.stay_type = "" THEN "Unknown" ELSE row.stay_type

\* stayTypeMetrics[stayType] after forEach has passed the first n rows
RECURSIVE metricsOf(_, _, _)
metricsOf(dbd, stayType, n) ==
    IF n = 0
    THEN [revenue |-> Zero, episodes |-> Zero, totalCPE |-> Zero, countCPE |-> 0,
          records |-> 0]
    ELSE LET metrics == metricsOf(dbd, stayType, n - 1)
             row == dbd[n]
             cpe == OrZero(row.cpe)
         IN  IF stayTypeOf(row) # stayType THEN metrics
             ELSE [revenue |-> Add(metrics.revenue, OrZero(row.revenue)),
                   episodes |-> Add(metrics.episodes, OrZero(row.episodes)),
                   totalCPE |-> IF IsPositive(cpe) THEN Add(metrics.totalCPE, cpe)
                                ELSE metrics.totalCPE,
                   countCPE |-> IF IsPositive(cpe) THEN metrics.countCPE + 1
                                ELSE metrics.countCPE,
                   records |-> metrics.records + 1]

stayTypeMetrics(dbd) ==
    [stayType \in {stayTypeOf(dbd[i]) : i \in 1 .. Len(dbd)} |->
        metricsOf(dbd, stayType, Len(dbd))]

\* a / b as the fraction <<numerator, denominator>>, for b > 0
Quotient(a, b) == <<a[1] * Pow10(b[2]), b[1] * Pow10(a[2])>>

NoQuotient == <<0, 1>>

\* a wrong variant of avgCPE, the two rules interchanged
avgCPEInterchanged(stayType, metrics) ==
    IF stayType \notin {"LTC", "Non-LTC"}
    THEN IF metrics.countCPE > 0
         THEN Quotient(metrics.totalCPE, Num(metrics.countCPE)) ELSE NoQuotient
    ELSE IF IsPositive(metrics.episodes)
         THEN Quotient(metrics.revenue, metrics.episodes) ELSE NoQuotient

\* updateSummaryCards: avgCPE of a stay type
avgCPE(stayType, metrics) ==
    IF stayType \in {"LTC", "Non-LTC"}
    THEN IF metrics.countCPE > 0
         THEN Quotient(metrics.totalCPE, Num(metrics.countCPE)) ELSE NoQuotient
    ELSE IF IsPositive(metrics.episodes)
         THEN Quotient(metrics.revenue, metrics.episodes) ELSE NoQuotient

\* avgCPE > 0 ? formatCurrency(avgCPE) : '-' : <<the amount without fraction
\* digits>>, or <<>> for the dash
cpeCell(avg) ==
    IF avg[1] > 0 THEN <<(2 * avg[1] + avg[2]) \div (2 * avg[2])>> ELSE <<>>

\* updateSummaryCards: the cards and the rows of the metrics table
summaryOf(dbd, totals) ==
    [total_revenue |-> formatCurrency(summaryTotal(dbd, totals, "revenue")),
     total_census |-> MathRound(summaryTotal(dbd, totals, "census")),
     total_episodes |-> MathRound(SumRows(dbd, "episodes", Len(dbd))),
     rows |-> [stayType \in DOMAIN stayTypeMetrics(dbd) |->
                 LET metrics == stayTypeMetrics(dbd)[stayType]
                 IN  [revenue |-> formatCurrency(metrics.revenue),
                      cpe |-> cpeCell(avgCPE(stayType, metrics)),
                      records |-> metrics.records]]]

\* the users of the application, by username
Users == {"u1", "u2"}

Session(username) == <<[username |-> username]>>

\* the clock counts half days: 24 * 60 * 60 * 1000 ms
maxAge == 2

\* localStorage.removeItem(key)
removeItem(storage, key) == Restrict(storage, DOMAIN storage \ {key})

\* the detail rows of the server: one for each monthly figure it read
detailOf(sources) ==
    [i \in 1 .. Len(sources) |->
        [month |-> sources[i].month, stay_type |-> sources[i].stay_type]]

\* saveCalculationData(): dataToSave, as JSON.parse reads it back (every value
\* in it has come from a parsed response)
dataToSave(dbd, dd, params, totals, user, time) ==
    [dailyBudgetData |-> dbd, detailData |-> dd, calculationParams |-> params,
     sourceTotals |-> totals, timestamp |-> time,
     \* currentUser?.username || null
     userId |-> IF user # <<>> /\ user[1].username # "" THEN <<user[1].username>>
                ELSE <<>>]

\* a wrong variant of belongsToAnotherUser, the owner of the data never looked at
belongsToNobodyElse(data, user) == FALSE

\* restoreCalculationData(): data.userId && currentUser &&
\* data.userId !== currentUser.username
belongsToAnotherUser(data, user) ==
    data.userId # <<>> /\ user # <<>> /\ data.userId[1] # user[1].username

\* restoreCalculationData(): Date.now() - data.timestamp > maxAge
isTooOld(data, time) == time - data.timestamp > maxAge

\* restoreCalculationData(), the variables of the script holding `memory`:
\* what they hold afterwards, what localStorage holds and whether the summary
\* has been shown.  Only saveCalculationData writes the key, so that what
\* is stored can always be parsed.
restoreCalculationData(memory, storage, user, time) ==
    LET key == "budgetCalculationData"
        data == storage[key]
    IN  IF key \notin DOMAIN storage
        THEN [memory |-> memory, storage |-> storage, shown |-> FALSE]
        ELSE IF belongsToAnotherUser(data, user) \/ isTooOld(data, time)
        THEN [memory |-> memory, storage |-> removeItem(storage, key), shown |-> FALSE]
        ELSE [memory |-> <<data.dailyBudgetData, data.sourceTotals, data.detailData,
                           data.calculationParams>>,
              storage |-> storage,
              shown |-> Len(data.dailyBudgetData) > 0]

\* the variables as the script declares them
DeclaredDaily == <<<<>>, <<>>, <<>>, EmptyObject>>

InitDaily ==
    /\ page = "daily"
    /\ branchSelect = "all"
    /\ selectedBranch = "all"
    /\ StoresAtStart
    /\ PagesAtStart
    /\ currentUser = Session("u1")
    /\ localStorage = EmptyObject
    /\ now = 0

\* calculateDailyBudget(), the selectors holding `year` and `scenario` and the
\* server answering from `sources`
calculateDailyBudget(year, scenario, sources, ok, withTotals) ==
    /\ page = "daily"
    /\ IF year = "" \/ scenario = "" \/ ~ok
       THEN /\ status' = Shown("error",
                               IF year = "" THEN "Please select year"
                               ELSE IF scenario = "" THEN "Please select scenario"
                               ELSE "Calculation failed")
            /\ rendered' = FALSE
            /\ saved' = FALSE
            /\ UNCHANGED <<dailyStores, localStorage, lastRequest>>
       ELSE LET params == [year |-> parseInt(year), quarters |-> <<1, 2, 3, 4>>,
                           scenario |-> scenario]
                totals == IF withTotals THEN <<sourceTotalsOf(sources)>> ELSE <<>>
            IN  /\ dailyBudgetData' = dailyBudgetOf(sources)
                /\ detailData' = detailOf(sources)
                /\ calculationParams' = params
                /\ sourceTotals' = totals
                /\ localStorage' =
                      Put(localStorage, "budgetCalculationData",
                          dataToSave(dailyBudgetOf(sources), detailOf(sources), params,
                                     totals, currentUser, now))
                /\ lastRequest' = <<[year |-> year, scenario |-> scenario,
                                     sources |-> sources]>>
                /\ status' = Shown("success", "Calculated")
                /\ rendered' = TRUE
                /\ saved' = TRUE
    /\ exported' = FALSE
    /\ UNCHANGED <<budgetStores, calculatedData, selectedBranch, budgetControls, fetches,
                   editorStores, edCalculatedData, editorControls, page, pending,
                   currentUser, now, appState, valueInput>>

NextDaily ==
    \/ \E year \in {"", "2026"} : calculateDailyBudget(year, "", <<>>, TRUE, TRUE)
    \/ \E scenario \in {"", "most_likely"} : calculateDailyBudget("", scenario, <<>>, TRUE, TRUE)
    \/ calculateDailyBudget("2026", "most_likely", <<>>, FALSE, FALSE)
    \/ \E sources \in SourceLists : \E withTotals \in BOOLEAN :
          calculateDailyBudget("2026", "most_likely", sources, TRUE, withTotals)

SpecDaily == InitDaily /\ [][NextDaily]_vars

(***************************************************************************)
(* The daily budget over several visits.  The page is opened again and     *)
(* again, by the same user or by another one, while time passes; what a    *)
(* visit calculated is published or left in localStorage.                  *)
(***************************************************************************)
MaxClock == 4

SessionSources ==
    {<<>>,
     <<[month |-> 1, stay_type |-> "LTC",
        figures |-> [revenue |-> 100, census |-> 10, episodes |-> 7, cpe |-> Num(30)]]>>}

\* the page is opened in a session of `user`: the script declares its
\* variables, checkAuthentication() sets currentUser and the handler of
\* DOMContentLoaded ends with restoreCalculationData()
DailyPageLoad(user) ==
    LET restored == restoreCalculationData(DeclaredDaily, localStorage, user, now)
    IN  /\ page = "daily"
        /\ currentUser' = user
        /\ dailyBudgetData' = restored.memory[1]
        /\ sourceTotals' = restored.memory[2]
        /\ detailData' = restored.memory[3]
        /\ calculationParams' = restored.memory[4]
        /\ localStorage' = restored.storage
        /\ status' = <<>>
        /\ rendered' = restored.shown
        /\ exported' = FALSE
        /\ saved' = FALSE
        /\ lastRequest' = <<>>
        /\ UNCHANGED <<budgetStores, calculatedData, selectedBranch, budgetControls,
                       fetches, editorStores, edCalculatedData, editorControls, page,
                       pending, now, appState, valueInput>>

\* exportToClickHouse() and, when there is something to publish,
\* confirmPublish() with the answer of the server
confirmPublish(ok) ==
    /\ page = "daily"
    /\ IF Len(detailData) = 0
       THEN /\ status' = Shown("error", "No data to publish")
            /\ UNCHANGED localStorage
       ELSE IF ok
       THEN /\ status' = Shown("success", "Published")
            /\ localStorage' = removeItem(localStorage, "budgetCalculationData")
       ELSE /\ status' = Shown("error", "Publish failed")
            /\ UNCHANGED localStorage
    /\ rendered' = FALSE
    /\ exported' = FALSE
    /\ saved' = FALSE
    /\ UNCHANGED <<budgetStores, calculatedData, selectedBranch, budgetControls, fetches,
                   editorStores, edCalculatedData, editorControls, page, pending,
                   dailyStores, valueInput, lastRequest, currentUser, now, appState>>

\* half a day passes
Tick ==
    /\ page \in {"daily", "assumptions"}
    /\ now < MaxClock
    /\ now' = now + 1
    /\ status' = <<>>
    /\ rendered' = FALSE
    /\ exported' = FALSE
    /\ saved' = FALSE
    /\ UNCHANGED <<budgetStores, calculatedData, selectedBranch, budgetControls, fetches,
                   editorStores, edCalculatedData, editorControls, page, pending,
                   dailyStores, valueInput, lastRequest, currentUser, localStorage, appState>>

NextSessions ==
    \/ \E user \in Users : DailyPageLoad(Session(user))
    \/ calculateDailyBudget("2026", "most_likely", <<>>, FALSE, FALSE)
    \/ \E sources \in SessionSources : \E withTotals \in BOOLEAN :
          calculateDailyBudget("2026", "most_likely", sources, TRUE, withTotals)
    \/ \E ok \in BOOLEAN : confirmPublish(ok)
    \/ Tick

SpecSessions == InitDaily /\ [][NextSessions]_vars

(***************************************************************************)
(* Editor: the table of the revenue type allocations.  The allocations of  *)
(* the branches have been loaded; the user types into the inputs of two    *)
(* branches, an input taking any number.                                   *)
(***************************************************************************)
\* typeTotal and branchCount after BRANCH_IDS.forEach has passed the branches
\* up to b
RECURSIVE typeTotalOf(_, _, _)
typeTotalOf(rta, code, b) ==
    IF b = 0 THEN [typeTotal |-> Zero, branchCount |-> 0]
    ELSE LET total == typeTotalOf(rta, code, b - 1)
             val == revTypePct(rta, b, code)
         IN  IF IsPositive(val)
             THEN [typeTotal |-> Add(total.typeTotal, val),
                   branchCount |-> total.branchCount + 1]
             ELSE total

\* a wrong variant of revenueTypeTotal, the sum divided by the number of
\* branches
revenueTypeTotalOverEveryBranch(rta, code) ==
    Quotient(typeTotalOf(rta, code, Cardinality(BRANCH_IDS)).typeTotal,
             Num(Cardinality(BRANCH_IDS)))

\* calculateRevenueTypeTotals(): avgTotal of a revenue type, as a fraction
revenueTypeTotal(rta, code) ==
    LET total == typeTotalOf(rta, code, Cardinality(BRANCH_IDS))
    IN  IF total.branchCount > 0
        THEN Quotient(total.typeTotal, Num(total.branchCount))
        ELSE NoQuotient

AllocationTexts == {JStr(NaN), JStr(Num(40)), JStr(Num(-5))}

AllocationBranches == {1, 2}

AllocationTypes == {"REV_TYPE_MOH", "REV_TYPE_INSURANCE"}

LoadedAllocations == {EmptyObject, 3 :> [REV_TYPE_MOH |-> Num(60)]}

InitAllocations ==
    \E loaded \in LoadedAllocations :
        /\ page = "editor"
        /\ selectedBranch = "all"
        /\ branchSelect = "all"
        /\ ControlsAtStart
        /\ monthlyRevenueData = EmptyObject
        /\ assumptionsData = EmptyObject
        /\ revenueTypeAssumptions = EmptyObject
        /\ calculatedData = EmptyObject
        /\ revenueData = EmptyObject
        /\ edAssumptionsData = EmptyObject
        /\ edRevenueTypeAssumptions = loaded
        /\ edCalculatedData = calculateAllValues(EmptyObject, EmptyObject, loaded)

NextAllocations ==
    \E b \in AllocationBranches : \E code \in AllocationTypes : \E text \in AllocationTexts :
        onRevenueTypeChange(b, code, text)

SpecAllocations == InitAllocations /\ [][NextAllocations]_vars

(***************************************************************************)
(* Editor: the page is loaded again.  sessionStorage holds what            *)
(* saveSessionData wrote last.  Every handler that completes after         *)
(* changing a store ends with calculateAllValues() and saveSessionData(),  *)
(* so that while nothing is in flight and the year and scenario controls   *)
(* are as they were loaded, what is stored is the session data of the      *)
(* state; nothing is stored before the first calculation.                  *)
(***************************************************************************)

\* JSON.parse of the text saveSessionData() has written
parsedSessionOf(session) ==
    [currentYear |-> session.currentYear,
     currentScenario |-> session.currentScenario,
     revenueData |-> session.revenueData,
     revenueTypeAssumptions |->
        [b \in DOMAIN session.revenueTypeAssumptions |->
            [code \in DOMAIN session.revenueTypeAssumptions[b] |->
                fromJSON(session.revenueTypeAssumptions[b][code])]],
     assumptionsData |->
        [b \in DOMAIN session.assumptionsData |->
            [code \in DOMAIN session.assumptionsData[b] |->
                [assumption_value |->
                    fromJSON(session.assumptionsData[b][code].assumption_value)]]],
     calculatedData |-> session.calculatedData]

\* restoreSessionData(): calculatedData after it, the session data read
\* being sessionData
restoredCalculatedData(sessionData) ==
    IF DOMAIN sessionData.revenueData # {} \/ DOMAIN sessionData.assumptionsData # {}
    THEN calculateAllValues(sessionData.revenueData, sessionData.assumptionsData,
                            sessionData.revenueTypeAssumptions)
    ELSE sessionData.calculatedData

\* DOMContentLoaded of the editor while nothing is in flight:
\* restoreSessionData()
editorDOMContentLoaded ==
    /\ page = "editor"
    /\ fetches = {}
    /\ IF DOMAIN edCalculatedData = {}
       THEN \* nothing is stored
            /\ UNCHANGED <<editorStores, edCalculatedData, edCurrentYear, edCurrentScenario>>
            /\ rendered' = FALSE
       ELSE LET sessionData ==
                    parsedSessionOf(
                        editorSessionDataOf(edCurrentYear, edCurrentScenario, revenueData,
                                            edRevenueTypeAssumptions, edAssumptionsData,
                                            edCalculatedData))
            IN  /\ edCurrentYear' = sessionData.currentYear
                /\ edCurrentScenario' = sessionData.currentScenario
                /\ revenueData' = sessionData.revenueData
                /\ edRevenueTypeAssumptions' = sessionData.revenueTypeAssumptions
                /\ edAssumptionsData' = sessionData.assumptionsData
                /\ edCalculatedData' = restoredCalculatedData(sessionData)
                /\ rendered' = (DOMAIN sessionData.revenueData # {}
                                \/ DOMAIN sessionData.assumptionsData # {})
    /\ edAssumptionsVersion' = 0
    /\ edAssumptionsPublished' = FALSE
    /\ lastRequest' = <<>>
    /\ status' = <<>>
    /\ exported' = FALSE
    /\ saved' = FALSE
    /\ UNCHANGED <<fetches, budgetStores, calculatedData, selectedBranch, budgetControls,
                   page, pending, dailyStores, valueInput, browser, appState>>

\* The editor: loads with every request answered, percentages typed while
\* nothing is in flight, and the page loaded again.
NextDerived ==
    \/ loadData
    \/ \E f \in fetches : editorRevenueLoaded(f, "ok")
    \/ \E f \in fetches : editorAssumptionsLoaded(f, "ok")
    \/ /\ fetches = {}
       /\ \E code \in EntryItems : \E text \in EnteredTexts :
             onAssumptionChange(1, code, text)
    \/ /\ fetches = {}
       /\ \E code \in EntryRevenueTypes : \E text \in EnteredTexts :
             onRevenueTypeChange(1, code, text)
    \/ editorDOMContentLoaded

SpecDerived == InitEditor /\ [][NextDerived]_vars

(***************************************************************************)
(* Budget assumptions (app.js): the records and their values.  A record is *)
(* [id, metric, input_type, value, isNew]; care type, quarter and branch   *)
(* are the same for all records and are left out.  A value is a number or  *)
(* null; an entry of pendingChanges is an object with some of the keys     *)
(* value, displayValue, isNew and deleted.                                 *)
(***************************************************************************)
\* the configuration served by /api/config: one metric for each input type,
\* one care type, one quarter and one branch
Config ==
    [metrics |-> <<"Growth", "Share", "Volume", "Days">>,
     metric_input_types |->
         [Growth |-> "Growth Rate", Share |-> "Exact Value%",
          Volume |-> "Exact Value Number", Days |-> "Number"]]

InputTypes == {"Growth Rate", "Exact Value%", "Exact Value Number", "Number"}

\* generateTemplateData(year): tempId counts down from -1
generateTemplateData(cfg) ==
    [i \in 1 .. Len(cfg.metrics) |->
        [id |-> 0 - i, metric |-> cfg.metrics[i],
         input_type |-> cfg.metric_input_types[cfg.metrics[i]],
         value |-> null, isNew |-> TRUE]]

\* mergeDataWithTemplate(template, existingData): existingData as a function
\* of the metric
mergeDataWithTemplate(template, existingData) ==
    [i \in DOMAIN template |->
        IF template[i].metric \in DOMAIN existingData
        THEN [existingData[template[i].metric] EXCEPT !.isNew = FALSE]
        ELSE template[i]]

isPercentageType(inputType) == inputType \in {"Growth Rate", "Exact Value%"}

displayToStorage(value, inputType) ==
    IF value = null THEN null
    ELSE IF isPercentageType(inputType) THEN Div100(value)
    ELSE value

storageToDisplay(value, inputType) ==
    IF value = null THEN null
    ELSE IF isPercentageType(inputType) THEN Mul(value, Num(100))
    ELSE value

\* a <= b, false when one of them is NaN
AtMost(a, b) == ~IsNaN(a) /\ ~IsNaN(b) /\ ~IsPositive(Sub(a, b))

\* a wrong variant of validateInputValue, every number accepted
validateInputValueAny(value, inputType) == ~IsNaN(value)

validateInputValue(value, inputType) ==
    IF IsNaN(value) THEN FALSE
    ELSE IF inputType = "Growth Rate"
    THEN AtMost(Num(-100), value) /\ AtMost(value, Num(1000))
    ELSE IF inputType = "Exact Value%"
    THEN AtMost(Zero, value) /\ AtMost(value, Num(100))
    ELSE IF inputType = "Exact Value Number"
    THEN AtMost(Zero, value)
    ELSE TRUE

\* Math.abs(a - b) < 0.0000001
AlmostEqual(a, b) ==
    LET d == Sub(a, b)
    IN  IsNegative(Sub(IF IsNegative(d) THEN Sub(Zero, d) ELSE d, <<1, 7>>))

\* currentData.find(r => r.id === id): the index of the record, 0 if none
RECURSIVE findRow(_, _, _)
findRow(data, id, n) ==
    IF n = 0 THEN 0
    ELSE LET before == findRow(data, id, n - 1)
         IN  IF before # 0 THEN before
             ELSE IF data[n].id = id THEN n ELSE 0

\* delete object[key]
Delete(object, key) == Restrict(object, DOMAIN object \ {key})

\* pendingChanges[id]?.deleted
IsDeleted(changes, id) ==
    id \in DOMAIN changes /\ "deleted" \in DOMAIN changes[id] /\ changes[id].deleted

\* the text of an input of the table: '' or the text of a number, NaN for a
\* text parseFloat reads no number from
EmptyText == <<"string", null>>

\* handleValueChange(id, value, inputType): pendingChanges afterwards
changesAfterValue(data, changes, id, text, inputType) ==
    LET n == findRow(data, id, Len(data))
        row == data[n]
        actualInputType == IF inputType = "" THEN row.input_type ELSE inputType
        displayValue == IF text = EmptyText THEN null ELSE parseFloat(text)
        storageValue == displayToStorage(displayValue, actualInputType)
        valuesAreEqual ==
            \/ storageValue = null /\ row.value = null
            \/ storageValue # null /\ row.value # null
                  /\ AlmostEqual(storageValue, row.value)
    IN  IF n = 0 THEN changes
        ELSE IF text # EmptyText /\ ~validateInputValue(parseFloat(text), actualInputType)
        THEN changes
        ELSE IF valuesAreEqual
        THEN IF id \in DOMAIN changes /\ ~IsDeleted(changes, id)
             THEN Delete(changes, id) ELSE changes
        ELSE Put(changes, id,
                 [value |-> storageValue, displayValue |-> displayValue,
                  isNew |-> row.isNew]
                 @@ (IF id \in DOMAIN changes THEN changes[id] ELSE EmptyObject))

\* updateSaveButton(): hasChanges
hasChanges(data, changes, newYear) ==
    \/ DOMAIN changes # {}
    \/ /\ newYear
       /\ \E i \in DOMAIN data :
             \/ data[i].value # null
             \/ data[i].id \in DOMAIN changes /\ "value" \in DOMAIN changes[data[i].id]

\* saveState(): state, as JSON.parse reads it back
stateToSave(year, scenario, data, changes, newYear, time) ==
    [currentYear |-> year, currentScenario |-> scenario, currentData |-> data,
     pendingChanges |-> changes, isNewYear |-> newYear, timestamp |-> time]

STORAGE_KEY == "budgetApp_state"

(***************************************************************************)
(* Budget assumptions (app.js): the handlers.  What a handler does to the  *)
(* variables of the script, to localStorage and to the page is written as  *)
(* a function of the record `app` that holds them, so that handlers can be *)
(* followed one after the other within a step.  An asynchronous function   *)
(* that waits for a response is an element of `calls`:                     *)
(*   listener : the registration of the listener that started it           *)
(*   fn, at   : the function and the request it waits for                  *)
(*   then     : who awaits it ("" nobody, "scenario", "save")              *)
(*   updates, newRecords, deletions : the locals of saveAllChanges, the    *)
(*     deletions being those still to be requested                         *)
(***************************************************************************)
AppOutcomes == {"ok", "notok", "error"}

\* what /api/budget/<year> returns as result.data, by metric: nothing saved,
\* or two saved records
AppResults ==
    {EmptyObject,
     [Growth |-> [id |-> 1, metric |-> "Growth", input_type |-> "Growth Rate",
                  value |-> <<5, 2>>, isNew |-> FALSE],
      Volume |-> [id |-> 3, metric |-> "Volume", input_type |-> "Exact Value Number",
                  value |-> Num(20), isNew |-> FALSE]]}

TheApp ==
    [year |-> appCurrentYear, scenario |-> appCurrentScenario, data |-> currentData,
     changes |-> pendingChanges, newYear |-> isNewYear, yearInput |-> yearInput,
     disabled |-> saveAllBtn.disabled, calls |-> calls, storage |-> localStorage,
     status |-> <<>>, rendered |-> FALSE, saved |-> FALSE]

Call(listener, fn, at, then) ==
    [listener |-> listener, fn |-> fn, at |-> at, then |-> then,
     updates |-> {}, newRecords |-> {}, deletions |-> {}]

showStatus(app, type, message) == [app EXCEPT !.status = Shown(type, message)]

updateSaveButton(app) ==
    [app EXCEPT !.disabled = ~hasChanges(app.data, app.changes, app.newYear)]

saveState(app, time) ==
    [app EXCEPT !.storage = Put(@, STORAGE_KEY,
                                stateToSave(app.year, app.scenario, app.data,
                                            app.changes, app.newYear, time)),
                !.saved = TRUE]

clearState(app) == [app EXCEPT !.storage = removeItem(@, STORAGE_KEY)]

\* restoreState()
restoreState(app, time) ==
    LET state == app.storage[STORAGE_KEY]
    IN  IF STORAGE_KEY \notin DOMAIN app.storage THEN app
        ELSE IF time - state.timestamp > maxAge THEN clearState(app)
        ELSE IF state.currentYear # 0 /\ Len(state.currentData) > 0
        THEN showStatus(
                 [updateSaveButton(
                     [app EXCEPT !.year = state.currentYear,
                                 !.scenario = state.currentScenario,
                                 !.data = state.currentData,
                                 !.changes = state.pendingChanges,
                                 !.newYear = state.isNewYear,
                                 !.yearInput = state.currentYear])
                  EXCEPT !.rendered = TRUE],
                 "success", "Restored data")
        ELSE app

\* handleValueChange(id, value, inputType)
handleValueChange(app, id, text, inputType, time) ==
    LET n == findRow(app.data, id, Len(app.data))
        actualInputType == IF inputType = "" THEN app.data[n].input_type ELSE inputType
    IN  IF n = 0 THEN app
        ELSE IF text # EmptyText /\ ~validateInputValue(parseFloat(text), actualInputType)
        THEN app
        ELSE saveState(
                 updateSaveButton(
                     [app EXCEPT !.changes =
                         changesAfterValue(app.data, app.changes, id, text, inputType)]),
                 time)

\* markForDeletion(id)
markForDeletion(app, id) ==
    LET n == findRow(app.data, id, Len(app.data))
        marked ==
            IF app.data[n].isNew
            THEN [app EXCEPT !.data = SelectSeq(app.data, LAMBDA r : r.id # id),
                             !.changes = Delete(@, id)]
            ELSE [app EXCEPT !.changes =
                     Put(@, id, [deleted |-> TRUE]
                                @@ (IF id \in DOMAIN @ THEN @[id] ELSE EmptyObject))]
    IN  IF n = 0 THEN app
        ELSE [updateSaveButton(marked) EXCEPT !.rendered = TRUE]

\* undoDeletion(id)
undoDeletion(app, id) ==
    LET entry == Delete(app.changes[id], "deleted")
        undone ==
            IF id \notin DOMAIN app.changes THEN app
            ELSE IF "value" \notin DOMAIN entry
            THEN [app EXCEPT !.changes = Delete(@, id)]
            ELSE [app EXCEPT !.changes = Put(@, id, entry)]
    IN  [updateSaveButton(undone) EXCEPT !.rendered = TRUE]

\* what follows when the loadYearData() of `call` has returned
afterLoadYearData(app, call) ==
    IF call.then = "scenario" THEN showStatus(app, "success", "Loaded scenario")
    ELSE IF call.then = "save"
    \* await loadExistingYears()
    THEN [app EXCEPT !.calls = @ \cup {[call EXCEPT !.fn = "saveAllChanges",
                                                     !.at = "years"]}]
    ELSE app

\* loadYearData() up to its await, started by or for `call`
loadYearData(app, call) ==
    IF app.yearInput = 0 \/ app.yearInput < 2020 \/ app.yearInput > 2100
    THEN afterLoadYearData(showStatus(app, "warning", "Please enter a valid year"), call)
    ELSE [app EXCEPT !.year = app.yearInput,
                     !.changes = EmptyObject,
                     !.calls = @ \cup {[call EXCEPT !.fn = "loadYearData",
                                                     !.at = "budget"]}]

\* loadYearData() from its await on, the request answered with `outcome` and
\* `result`
loadYearDataRest(app, call, outcome, result, cfg, time) ==
    LET templateData == generateTemplateData(cfg)
        loaded ==
            IF DOMAIN result # {}
            THEN [app EXCEPT !.newYear = FALSE,
                             !.data = mergeDataWithTemplate(templateData, result)]
            ELSE [app EXCEPT !.newYear = TRUE, !.data = templateData]
    IN  afterLoadYearData(
            \* without a configuration generateTemplateData throws
            IF outcome # "ok" \/ cfg = EmptyObject
            THEN showStatus(app, "error", "Error loading data")
            ELSE saveState([updateSaveButton(showStatus(loaded, "success", "Loaded"))
                            EXCEPT !.rendered = TRUE],
                           time),
            call)

\* the handler of a scenario button, registered as `listener`
scenarioClicked(app, listener, newScenario, confirmSwitch) ==
    IF DOMAIN app.changes # {} /\ ~confirmSwitch THEN app
    ELSE LET switched == [app EXCEPT !.scenario = newScenario, !.changes = EmptyObject]
         IN  IF switched.year # 0
             THEN loadYearData(switched, Call(listener, "loadYearData", "", "scenario"))
             ELSE switched

\* saveAllChanges(), a new year: records
recordsOf(data, changes) ==
    {[metric |-> data[i].metric,
      value |-> IF data[i].id \in DOMAIN changes /\ "value" \in DOMAIN changes[data[i].id]
                THEN changes[data[i].id].value ELSE data[i].value] : i \in DOMAIN data}
        \ {[metric |-> metric, value |-> null] : metric \in {data[i].metric : i \in DOMAIN data}}

\* saveAllChanges(), an existing year: deletions, newRecords and updates
deletionsOf(data, changes) == {id \in DOMAIN changes : IsDeleted(changes, id) /\ id > 0}

HasValue(changes, id) == ~IsDeleted(changes, id) /\ "value" \in DOMAIN changes[id]

IsNewRecord(data, id) ==
    id < 0 \/ (findRow(data, id, Len(data)) # 0 /\ data[findRow(data, id, Len(data))].isNew)

newRecordsOf(data, changes) ==
    {[metric |-> data[findRow(data, id, Len(data))].metric, value |-> changes[id].value] :
        id \in {c \in DOMAIN changes : /\ HasValue(changes, c)
                                       /\ IsNewRecord(data, c)
                                       /\ findRow(data, c, Len(data)) # 0}}

updatesOf(data, changes) ==
    {[id |-> id, value |-> changes[id].value] :
        id \in {c \in DOMAIN changes : HasValue(changes, c) /\ ~IsNewRecord(data, c)}}

\* saveAllChanges() after its requests: pendingChanges = {}; await
\* loadYearData()
saveReload(app, call) ==
    loadYearData([app EXCEPT !.changes = EmptyObject],
                 [call EXCEPT !.then = "save"])

\* saveAllChanges(), an existing year: the next request after the stage
\* `done` ("" at the start), or the end of the requests
saveContinue(app, call, done) ==
    IF done = "" /\ call.updates # {}
    THEN [app EXCEPT !.calls = @ \cup {[call EXCEPT !.at = "update"]}]
    ELSE IF done \in {"", "update"} /\ call.newRecords # {}
    THEN [app EXCEPT !.calls = @ \cup {[call EXCEPT !.at = "new"]}]
    ELSE IF call.deletions # {}
    THEN [app EXCEPT !.calls = @ \cup {[call EXCEPT !.at = "delete"]}]
    ELSE saveReload(showStatus(app, "success", "Updated, created, deleted"), call)

\* saveAllChanges() up to its first await, started by the listener
\* registered as `listener`
saveAllChanges(app, listener) ==
    LET call == Call(listener, "saveAllChanges", "", "")
    IN  IF app.newYear
        THEN [app EXCEPT !.calls =
                 @ \cup {[call EXCEPT !.at = "create",
                                      !.newRecords = recordsOf(app.data, app.changes)]}]
        ELSE saveContinue(app,
                          [call EXCEPT !.updates = updatesOf(app.data, app.changes),
                                       !.newRecords = newRecordsOf(app.data, app.changes),
                                       !.deletions = deletionsOf(app.data, app.changes)],
                          "")

\* saveAllChanges(): whether the answer `outcome` to the request `at` makes it
\* throw; response.ok is not looked at after a DELETE
requestFailed(at, outcome) ==
    IF at = "delete" THEN outcome = "error" ELSE outcome # "ok"

\* saveAllChanges() from an await on, the request answered with `outcome`
saveAllChangesRest(app, call, outcome) ==
    IF requestFailed(call.at, outcome)
    THEN showStatus(app, "error", "Error saving")
    ELSE IF call.at = "create"
    THEN saveReload(showStatus(app, "success", "Successfully created"), call)
    ELSE IF call.at = "delete"
    THEN saveContinue(app, [call EXCEPT !.deletions = @ \ {Least(@)}], "delete")
    ELSE saveContinue(app, call, call.at)

\* the listeners of an element run one after the other, each up to its
\* first await
EachListener(handler(_, _), app) ==
    IF listeners = 0 THEN app
    ELSE IF listeners = 1 THEN handler(app, 1)
    ELSE handler(handler(app, 1), 2)

notApp ==
    <<budgetStores, calculatedData, selectedBranch, budgetControls, fetches,
      editorStores, edCalculatedData, editorControls, page, pending, dailyStores, valueInput,
      lastRequest>>

\* the step has left the variables of app.js, localStorage and the page as
\* `app` holds them
Becomes(app) ==
    /\ appCurrentYear' = app.year
    /\ appCurrentScenario' = app.scenario
    /\ currentData' = app.data
    /\ pendingChanges' = app.changes
    /\ isNewYear' = app.newYear
    /\ yearInput' = app.yearInput
    /\ saveAllBtn' = [disabled |-> app.disabled]
    /\ calls' = app.calls
    /\ localStorage' = app.storage
    /\ status' = app.status
    /\ rendered' = app.rendered
    /\ saved' = app.saved
    /\ exported' = FALSE
    /\ UNCHANGED notApp

Waiting(call) == [TheApp EXCEPT !.calls = @ \ {call}]

\* the user waits while the page shows that it is loading
AppIsQuiet == page = "assumptions" /\ calls = {}

\* a year is typed into yearInput or selected in yearSelect
ChangeYearInput(year) ==
    /\ AppIsQuiet
    /\ listeners > 0
    /\ Becomes([TheApp EXCEPT !.yearInput = year])
    /\ UNCHANGED <<listeners, config, currentUser, now>>

\* a click on loadBtn
ClickLoad ==
    /\ AppIsQuiet
    /\ listeners > 0
    /\ Becomes(EachListener(LAMBDA app, k : loadYearData(app, Call(k, "", "", "")),
                            TheApp))
    /\ UNCHANGED <<listeners, config, currentUser, now>>

\* the request of a loadYearData() is answered
budgetLoaded(call, outcome, result) ==
    /\ page = "assumptions"
    /\ call \in calls
    /\ call.fn = "loadYearData"
    /\ Becomes(loadYearDataRest(Waiting(call), call, outcome, result, config, now))
    /\ UNCHANGED <<listeners, config, currentUser, now>>

\* a click on a scenario button; confirmSwitch[k] is the answer to the
\* question the k-th listener may ask
ClickScenario(newScenario, confirmSwitch) ==
    /\ AppIsQuiet
    /\ listeners > 0
    /\ Becomes(EachListener(
                   LAMBDA app, k : scenarioClicked(app, k, newScenario, confirmSwitch[k]),
                   TheApp))
    /\ UNCHANGED <<listeners, config, currentUser, now>>

\* a value is changed in an input of the table
ChangeValue(id, text, inputType) ==
    /\ AppIsQuiet
    /\ Len(currentData) > 0
    /\ Becomes(handleValueChange(TheApp, id, text, inputType, now))
    /\ UNCHANGED <<listeners, config, currentUser, now>>

MarkForDeletion(id) ==
    /\ AppIsQuiet
    /\ Len(currentData) > 0
    /\ Becomes(markForDeletion(TheApp, id))
    /\ UNCHANGED <<listeners, config, currentUser, now>>

UndoDeletion(id) ==
    /\ AppIsQuiet
    /\ Len(currentData) > 0
    /\ Becomes(undoDeletion(TheApp, id))
    /\ UNCHANGED <<listeners, config, currentUser, now>>

\* a click on saveAllBtn, which is not disabled
ClickSave ==
    /\ AppIsQuiet
    /\ listeners > 0
    /\ ~saveAllBtn.disabled
    /\ Becomes(EachListener(LAMBDA app, k : saveAllChanges(app, k), TheApp))
    /\ UNCHANGED <<listeners, config, currentUser, now>>

\* a request of a saveAllChanges() is answered
saveResponded(call, outcome) ==
    /\ page = "assumptions"
    /\ call \in calls
    /\ call.fn = "saveAllChanges"
    /\ call.at # "years"
    /\ Becomes(saveAllChangesRest(Waiting(call), call, outcome))
    /\ UNCHANGED <<listeners, config, currentUser, now>>

\* the loadExistingYears() of a saveAllChanges() has returned: clearState()
saveEnded(call) ==
    /\ page = "assumptions"
    /\ call \in calls
    /\ call.fn = "saveAllChanges"
    /\ call.at = "years"
    /\ Becomes(clearState(Waiting(call)))
    /\ UNCHANGED <<listeners, config, currentUser, now>>

(***************************************************************************)
(* Budget assumptions (app.js): the page is opened.  The script registers  *)
(* two handlers of DOMContentLoaded (l.43 and l.234); when the event fires *)
(* each runs up to its first await, and each goes on when the response it  *)
(* waits for arrives.                                                      *)
(***************************************************************************)
AppDOMContentLoaded ==
    /\ page \in {"assumptions", "login"}
    /\ page' = "assumptions"
    /\ appCurrentYear' = 0
    /\ appCurrentScenario' = "most_likely"
    /\ currentData' = <<>>
    /\ pendingChanges' = EmptyObject
    /\ isNewYear' = FALSE
    /\ yearInput' = 0
    /\ saveAllBtn' = [disabled |-> TRUE]
    /\ listeners' = 0
    /\ config' = EmptyObject
    /\ currentUser' = <<>>
    /\ calls' = {Call(1, "onLoad", "auth", ""), Call(2, "onLoad", "config", "")}
    /\ status' = <<>>
    /\ rendered' = FALSE
    /\ exported' = FALSE
    /\ saved' = FALSE
    /\ UNCHANGED <<budgetStores, calculatedData, selectedBranch, budgetControls, fetches,
                   editorStores, edCalculatedData, editorControls, pending, dailyStores, valueInput,
                   lastRequest, localStorage, now>>

\* checkAuthentication() of the first handler has its answer: `user` is
\* data.user, or <<>> when the session is not authenticated or the request
\* has failed
authChecked(call, user) ==
    /\ page = "assumptions"
    /\ call \in calls
    /\ call.fn = "onLoad"
    /\ call.at = "auth"
    /\ IF user = <<>>
       THEN \* window.location.href = '/login.html'
            /\ page' = "login"
            /\ calls' = {}
            /\ UNCHANGED currentUser
       ELSE /\ currentUser' = user
            \* await loadConfig()
            /\ calls' = (calls \ {call}) \cup {[call EXCEPT !.at = "config"]}
            /\ UNCHANGED page
    /\ status' = <<>>
    /\ rendered' = FALSE
    /\ exported' = FALSE
    /\ saved' = FALSE
    /\ UNCHANGED <<budgetStores, calculatedData, selectedBranch, budgetControls, fetches,
                   editorStores, edCalculatedData, editorControls, pending, dailyStores, valueInput,
                   lastRequest, localStorage, now, appCurrentYear, appCurrentScenario,
                   currentData, pendingChanges, isNewYear, yearInput, saveAllBtn,
                   listeners, config>>

\* loadConfig() of a handler has its answer; loadExistingYears() follows
configLoaded(call, outcome) ==
    /\ page = "assumptions"
    /\ call \in calls
    /\ call.fn = "onLoad"
    /\ call.at = "config"
    /\ config' = IF outcome = "ok" THEN Config ELSE config
    /\ status' = IF outcome = "error"
                 THEN Shown("error", "Failed to load configuration") ELSE <<>>
    /\ calls' = (calls \ {call}) \cup {[call EXCEPT !.at = "years"]}
    /\ rendered' = FALSE
    /\ exported' = FALSE
    /\ saved' = FALSE
    /\ UNCHANGED <<notApp, localStorage, now, currentUser, appCurrentYear,
                   appCurrentScenario, currentData, pendingChanges, isNewYear, yearInput,
                   saveAllBtn, listeners>>

\* loadExistingYears() of a handler has returned: setupEventListeners() and,
\* in the first handler, restoreState()
yearsLoaded(call) ==
    /\ page = "assumptions"
    /\ call \in calls
    /\ call.fn = "onLoad"
    /\ call.at = "years"
    /\ listeners' = listeners + 1
    /\ Becomes(IF call.listener = 1 THEN restoreState(Waiting(call), now)
               ELSE Waiting(call))
    /\ UNCHANGED <<config, currentUser, now>>

AppYears == {0, 2026}

AppScenarios == {"most_likely", "best_case"}

\* the texts typed into the inputs of the table
AppTexts == {EmptyText, JStr(Num(5)), JStr(Num(7)), JStr(Num(-1))}

\* the records the user edits: a saved one and one the template has added
EditedRecords == {1, -2}

\* nothing is stored and the page is about to be opened
InitAppLoad ==
    /\ page = "login"
    /\ branchSelect = "all"
    /\ selectedBranch = "all"
    /\ StoresAtStart
    /\ ControlsAtStart

NextAppLoad ==
    \/ AppDOMContentLoaded
    \/ \E call \in calls : \E user \in {<<>>, Session("u1")} : authChecked(call, user)
    \/ \E call \in calls : \E outcome \in AppOutcomes : configLoaded(call, outcome)
    \/ \E call \in calls : yearsLoaded(call)
    \/ \E year \in AppYears : ChangeYearInput(year)
    \/ ClickLoad
    \/ \E call \in calls : \E outcome \in AppOutcomes : \E result \in AppResults :
          budgetLoaded(call, outcome, result)

SpecAppLoad == InitAppLoad /\ [][NextAppLoad]_vars

NextApp ==
    \/ AppDOMContentLoaded
    \/ \E call \in calls : \E user \in {<<>>, Session("u1")} : authChecked(call, user)
    \/ \E call \in calls : \E outcome \in AppOutcomes : configLoaded(call, outcome)
    \/ \E call \in calls : yearsLoaded(call)
    \/ \E year \in AppYears : ChangeYearInput(year)
    \/ ClickLoad
    \/ \E call \in calls : \E outcome \in AppOutcomes : \E result \in AppResults :
          budgetLoaded(call, outcome, result)
    \/ \E newScenario \in AppScenarios : \E confirmSwitch \in [1 .. 2 -> BOOLEAN] :
          ClickScenario(newScenario, confirmSwitch)
    \/ \E id \in EditedRecords : \E text \in AppTexts : ChangeValue(id, text, "")
    \/ \E id \in EditedRecords : MarkForDeletion(id)
    \/ \E id \in EditedRecords : UndoDeletion(id)
    \/ ClickSave
    \/ \E call \in calls : \E outcome \in AppOutcomes : saveResponded(call, outcome)
    \/ \E call \in calls : saveEnded(call)

SpecApp == InitAppLoad /\ [][NextApp]_vars

(***************************************************************************)
(* Budget assumptions (app.js): the inputs of the table.  The page has     *)
(* been opened by a user and has loaded its configuration and the data of  *)
(* a year; values are typed into the inputs of the table, each input       *)
(* taking texts around the limits of its type.                             *)
(***************************************************************************)
NotANumber == JStr(NaN)

ValueTexts(inputType) ==
    IF inputType = "Growth Rate"
    THEN {EmptyText, JStr(Num(-101)), JStr(Num(-100)), JStr(Num(5)),
          JStr(<<5000001, 6>>), JStr(Num(1000)), JStr(Num(1001)), NotANumber}
    ELSE IF inputType = "Exact Value%"
    THEN {EmptyText, JStr(Num(-1)), JStr(Zero), JStr(Num(100)), JStr(Num(101))}
    ELSE IF inputType = "Exact Value Number"
    THEN {EmptyText, JStr(Num(-1)), JStr(Zero), JStr(Num(20))}
    ELSE {EmptyText, JStr(Num(-1)), JStr(Num(5))}

\* the ids of the records of the table, and one that no record has
ValueIds == {1, -2, 3, -4, 99}

InputTypeOf(id) ==
    IF id \in {-1, 1} THEN "Growth Rate"
    ELSE IF id \in {-2, 2} THEN "Exact Value%"
    ELSE IF id \in {-3, 3} THEN "Exact Value Number"
    ELSE "Number"

\* the variables of app.js, localStorage and the page are as `app` holds them
Holds(app) ==
    /\ appCurrentYear = app.year
    /\ appCurrentScenario = app.scenario
    /\ currentData = app.data
    /\ pendingChanges = app.changes
    /\ isNewYear = app.newYear
    /\ yearInput = app.yearInput
    /\ saveAllBtn = [disabled |-> app.disabled]
    /\ calls = app.calls
    /\ localStorage = app.storage
    /\ status = app.status
    /\ rendered = app.rendered
    /\ saved = app.saved
    /\ exported = FALSE

InitValues ==
    \E result \in AppResults :
        /\ page = "assumptions"
        /\ branchSelect = "all"
        /\ selectedBranch = "all"
        /\ StoresAtStart
        /\ currentYear = 0
        /\ currentScenario = "most_likely"
        /\ assumptionsVersion = 0
        /\ assumptionsPublished = FALSE
        /\ edCurrentYear = 2027
        /\ edCurrentScenario = "most_likely"
        /\ edAssumptionsVersion = 0
        /\ edAssumptionsPublished = FALSE
        /\ fetches = {}
        /\ lastRequest = <<>>
        /\ pending = <<>>
        /\ DailyAtStart
        /\ currentUser = Session("u1")
        /\ now = 0
        /\ listeners = 2
        /\ config = Config
        /\ valueInput = <<>>
        /\ Holds(loadYearDataRest(
                     [year |-> 2026, scenario |-> "most_likely", data |-> <<>>,
                      changes |-> EmptyObject, newYear |-> FALSE, yearInput |-> 2026,
                      disabled |-> TRUE, calls |-> {}, storage |-> EmptyObject,
                      status |-> <<>>, rendered |-> FALSE, saved |-> FALSE],
                     Call(1, "loadYearData", "budget", ""), "ok", result, Config, 0))

NextValues ==
    \/ \E id \in ValueIds : \E text \in ValueTexts(InputTypeOf(id)) :
          ChangeValue(id, text, InputTypeOf(id))
    \/ \E id \in ValueIds : MarkForDeletion(id)
    \/ \E id \in ValueIds : UndoDeletion(id)

SpecValues == InitValues /\ [][NextValues]_vars

(***************************************************************************)
(* Budget assumptions (app.js): the conversion in double precision         *)
(*                                                                         *)
(* A finite double is [neg, exp, bits]: bits is the significand of 53      *)
(* bits, the most significant first, and the value is                      *)
(* (-1)^neg * b1.b2...b53 * 2^exp with b1 = 1; zero has exp = 0 and no bit *)
(* set.  The values met here are far from the subnormal numbers and from   *)
(* infinity.  The result of an operation is the double nearest to the      *)
(* exact result, the one with an even significand on a tie.                *)
(***************************************************************************)
RECURSIVE bitsOf(_)
bitsOf(n) == IF n = 0 THEN <<>> ELSE Append(bitsOf(n \div 2), n % 2)

Zeros(len) == [i \in 1..len |-> 0]

\* the double of a whole number
DoubleOf(n) ==
    LET magnitude == IF n < 0 THEN 0 - n ELSE n
        digits == bitsOf(magnitude)
    IN  IF n = 0 THEN [neg |-> FALSE, exp |-> 0, bits |-> Zeros(53)]
        ELSE [neg |-> n < 0, exp |-> Len(digits) - 1,
              bits |-> digits \o Zeros(53 - Len(digits))]

IsZeroDouble(d) == \A i \in 1..53 : d.bits[i] = 0

\* bits + 1 in the last place, bits[1..i] being what is still to be carried
\* into; <<>> when the carry leaves the significand
RECURSIVE carried(_, _)
carried(bits, i) ==
    IF i = 0 THEN <<>>
    ELSE IF bits[i] = 0 THEN [bits EXCEPT ![i] = 1]
    ELSE carried([bits EXCEPT ![i] = 0], i - 1)

\* the double nearest to (-1)^neg * b1.b2... * 2^exp, where `digits` are at
\* least 54 bits of the exact value with b1 = 1 and `sticky` tells whether
\* the exact value has bits set after them
roundToNearestEven(neg, exp, digits, sticky) ==
    LET kept == SubSeq(digits, 1, 53)
        guard == digits[54]
        rest == sticky \/ \E i \in 55..Len(digits) : digits[i] = 1
        up == guard = 1 /\ (rest \/ kept[53] = 1)
        next == carried(kept, 53)
    IN  IF ~up THEN [neg |-> neg, exp |-> exp, bits |-> kept]
        ELSE IF next = <<>>
        THEN [neg |-> neg, exp |-> exp + 1, bits |-> <<1>> \o Zeros(52)]
        ELSE [neg |-> neg, exp |-> exp, bits |-> next]

\* long division of the significand by `divisor`: bit i of the dividend is
\* taken (0 after the last), `remainder` is what the bits before it have
\* left and `digits` are the bits of the quotient from its first 1 on; it
\* ends with 54 of them
RECURSIVE longDivision(_, _, _, _, _)
longDivision(bits, divisor, i, remainder, digits) ==
    IF Len(digits) = 54
    THEN [digits |-> digits, first |-> i - 54,
          sticky |-> remainder # 0 \/ \E j \in i..53 : bits[j] = 1]
    ELSE LET taken == 2 * remainder + (IF i <= 53 THEN bits[i] ELSE 0)
             bit == IF taken >= divisor THEN 1 ELSE 0
         IN  IF digits = <<>> /\ bit = 0
             THEN longDivision(bits, divisor, i + 1, taken, digits)
             ELSE longDivision(bits, divisor, i + 1, taken - bit * divisor,
                               Append(digits, bit))

\* d / divisor, the divisor a positive whole number
DividedBy(d, divisor) ==
    LET quotient == longDivision(d.bits, divisor, 1, 0, <<>>)
    IN  IF IsZeroDouble(d) THEN d
        ELSE roundToNearestEven(d.neg, d.exp + 1 - quotient.first, quotient.digits,
                                quotient.sticky)

\* the bits of bits * factor: the product is built from the last bit on,
\* `digits` are its bits after bit i and `carry` is what they have carried
RECURSIVE longMultiplication(_, _, _)
longMultiplication(bits, factor, at) ==
    IF at.i = 0 THEN bitsOf(at.carry) \o at.digits
    ELSE LET sum == bits[at.i] * factor + at.carry
         IN  longMultiplication(bits, factor,
                                [i |-> at.i - 1, carry |-> sum \div 2,
                                 digits |-> <<sum % 2>> \o at.digits])

\* d * factor, the factor a positive whole number
MultipliedBy(d, factor) ==
    LET product == longMultiplication(d.bits, factor, [i |-> 53, carry |-> 0, digits |-> <<>>])
    IN  IF IsZeroDouble(d) THEN d
        ELSE roundToNearestEven(d.neg, d.exp + Len(product) - 53, product \o <<0>>,
                                FALSE)

\* displayToStorage and storageToDisplay on doubles
displayToStorageDouble(value, inputType) ==
    IF value = null THEN null
    ELSE IF isPercentageType(inputType) THEN DividedBy(value, 100)
    ELSE value

storageToDisplayDouble(value, inputType) ==
    IF value = null THEN null
    ELSE IF isPercentageType(inputType) THEN MultipliedBy(value, 100)
    ELSE value

(***************************************************************************)
(* Budget assumptions (app.js): a value from the input to the table and    *)
(* back                                                                    *)
(*                                                                         *)
(* valueInput follows one cell: `typed` is the number in the input, null   *)
(* when it is empty; `stored` is what displayToStorage has made of it and  *)
(* `shown` is what renderTable puts into the input for the stored value.   *)
(* `at` is "typed", "stored" or "shown".                                   *)
(***************************************************************************)
MaxTyped == 40

TypedNumbers == {DoubleOf(n) : n \in (0 - MaxTyped)..MaxTyped} \cup {null}

InitConversion ==
    /\ page = "assumptions"
    /\ branchSelect = "all"
    /\ selectedBranch = "all"
    /\ StoresAtStart
    /\ ControlsAtStart

\* a number is typed into the input of a cell of the given input type, or
\* the input is emptied
typeValue(inputType, typed) ==
    /\ page = "assumptions"
    /\ IF valueInput = <<>> THEN TRUE ELSE valueInput.at = "shown"
    /\ valueInput' = [at |-> "typed", inputType |-> inputType, typed |-> typed,
                      stored |-> null, shown |-> null]
    /\ UNCHANGED <<monthlyRevenueData, assumptionsData, revenueTypeAssumptions,
                   calculatedData, selectedBranch, revenueData, edAssumptionsData,
                   edRevenueTypeAssumptions, edCalculatedData, page, budgetControls,
                   editorControls, fetches, outputs, lastRequest, pending, dailyStores,
                   browser, appState>>

\* handleValueChange: the number of the input is converted for storage
convertForStorage ==
    /\ page = "assumptions"
    /\ valueInput # <<>>
    /\ valueInput.at = "typed"
    /\ valueInput' = [valueInput EXCEPT
                        !.at = "stored",
                        !.stored = displayToStorageDouble(valueInput.typed,
                                                          valueInput.inputType)]
    /\ UNCHANGED <<monthlyRevenueData, assumptionsData, revenueTypeAssumptions,
                   calculatedData, selectedBranch, revenueData, edAssumptionsData,
                   edRevenueTypeAssumptions, edCalculatedData, page, budgetControls,
                   editorControls, fetches, outputs, lastRequest, pending, dailyStores,
                   browser, appState>>

\* renderTable: the stored value is converted for the input
convertForDisplay ==
    /\ page = "assumptions"
    /\ valueInput # <<>>
    /\ valueInput.at = "stored"
    /\ valueInput' = [valueInput EXCEPT
                        !.at = "shown",
                        !.shown = storageToDisplayDouble(valueInput.stored,
                                                         valueInput.inputType)]
    /\ UNCHANGED <<monthlyRevenueData, assumptionsData, revenueTypeAssumptions,
                   calculatedData, selectedBranch, revenueData, edAssumptionsData,
                   edRevenueTypeAssumptions, edCalculatedData, page, budgetControls,
                   editorControls, fetches, outputs, lastRequest, pending, dailyStores,
                   browser, appState>>

NextConversion ==
    \/ \E inputType \in InputTypes : \E typed \in TypedNumbers :
          typeValue(inputType, typed)
    \/ convertForStorage
    \/ convertForDisplay

SpecConversion == InitConversion /\ [][NextConversion]_vars

(***************************************************************************)
(* The engine in double precision: sub revenue and the two discounts taken *)
(* from it alone                                                           *)
(*                                                                         *)
(* Both pages calculate with doubles.  REV_SUB, DIS_VOLUME and             *)
(* DIS_EARLY_PAY are followed here as the code computes them, for revenue  *)
(* figures and percentages that are whole numbers: the monthly budget view *)
(* rounds each month's amount and each step of the running total, the      *)
(* editor rounds the year's amount once.                                   *)
(***************************************************************************)
YearItems == {"REV_SUB", "DIS_VOLUME", "DIS_EARLY_PAY"}

\* the bits of a + b, two rows of bits of the same length: the sum is built
\* from the last bit on
RECURSIVE binaryAddition(_, _, _)
binaryAddition(a, b, at) ==
    IF at.i = 0 THEN (IF at.carry = 1 THEN <<1>> ELSE <<>>) \o at.digits
    ELSE LET sum == a[at.i] + b[at.i] + at.carry
         IN  binaryAddition(a, b, [i |-> at.i - 1, carry |-> sum \div 2,
                                   digits |-> <<sum % 2>> \o at.digits])

\* a + b, neither of them negative
Plus(a, b) ==
    LET hi == IF a.exp >= b.exp THEN a ELSE b
        lo == IF a.exp >= b.exp THEN b ELSE a
        shift == hi.exp - lo.exp
        sum == binaryAddition(hi.bits \o Zeros(shift), Zeros(shift) \o lo.bits,
                              [i |-> 53 + shift, carry |-> 0, digits |-> <<>>])
    IN  IF IsZeroDouble(a) THEN b
        ELSE IF IsZeroDouble(b) THEN a
        ELSE roundToNearestEven(FALSE, hi.exp + Len(sum) - (53 + shift),
                                sum \o <<0>>, FALSE)

\* base * (pct / 100), base and pct whole numbers that are not negative
PercentOfDouble(base, pct) ==
    IF base = 0 THEN DoubleOf(0)
    ELSE MultipliedBy(DividedBy(DoubleOf(pct), 100), base)

\* calculateMonthValues(branchId, month), the items followed
calculateMonthValuesDouble(mrd, ad, branchId, month) ==
    LET monthRevenue == monthRevenueOf(mrd, branchId, month)
        ipRevenue == revenueOf(monthRevenue, "IP")
        opRevenue == revenueOf(monthRevenue, "OP")
        erRevenue == revenueOf(monthRevenue, "ER")
        subRevenue == Add(Add(ipRevenue, opRevenue), erRevenue)[1]
    IN  [REV_SUB |-> DoubleOf(subRevenue),
         DIS_VOLUME |->
            PercentOfDouble(subRevenue, assumptionPct(ad, branchId, "DIS_VOLUME")[1]),
         DIS_EARLY_PAY |->
            PercentOfDouble(subRevenue, assumptionPct(ad, branchId, "DIS_EARLY_PAY")[1])]

\* fyTotal += calculatedData[branchId][code][`month_${m}`] || 0, for m = 1 .. 12
RECURSIVE SumMonthsDouble(_, _)
SumMonthsDouble(month, m) ==
    IF m = 0 THEN DoubleOf(0) ELSE Plus(SumMonthsDouble(month, m - 1), month[m])

\* calculateAllBranchValues(), the items followed
calculateAllBranchValuesDouble(mrd, ad, sel) ==
    Eager([b \in getSelectedBranches(sel) |->
            LET values ==
                    Eager([m \in Months |-> calculateMonthValuesDouble(mrd, ad, b, m)])
            IN  Eager([code \in YearItems |->
                        LET month == Eager([m \in Months |-> values[m][code]])
                        IN  [month |-> month, fy_total |-> SumMonthsDouble(month, 12)]])])

\* calculateAllValues(), the items followed
calculateAllValuesDouble(rd, ad) ==
    Eager([b \in BRANCH_IDS |->
            LET ipRevenue == editorRevenueOf(rd, b, "IP")
                opRevenue == editorRevenueOf(rd, b, "OP")
                erRevenue == editorRevenueOf(rd, b, "ER")
                subRevenue == Add(Add(ipRevenue, opRevenue), erRevenue)[1]
            IN  Eager([REV_SUB |-> DoubleOf(subRevenue),
                       DIS_VOLUME |->
                          PercentOfDouble(subRevenue, assumptionPct(ad, b, "DIS_VOLUME")[1]),
                       DIS_EARLY_PAY |->
                          PercentOfDouble(subRevenue,
                                          assumptionPct(ad, b, "DIS_EARLY_PAY")[1])])])

\* the largest percentage entered
MaxPct == 8

\* a year with revenue in its first two months only
FewMonths ==
    [m \in Months |->
        [IP |-> JNum(Num(IF m = 1 THEN 1 ELSE IF m = 2 THEN 5 ELSE 0)),
         OP |-> JNum(Zero), ER |-> JNum(Zero)]]

\* <<branch, the twelve months of its revenue>>
YearInputs ==
    {<<b, MonthlyRevenueOf(b, 2026, "most_likely")>> : b \in {1, 2, 3}}
        \cup {<<6, FewMonths>>}

\* a branch with the revenue of twelve months in the budget view and with
\* the sum of the twelve, by care type, in the editor; both pages hold the
\* same volume and early payment discounts and no allocation
InitYear ==
    \E in \in YearInputs : \E pct \in 0 .. MaxPct :
        LET b == in[1]
            assumptions ==
                b :> [DIS_VOLUME |-> [assumption_value |-> Num(pct)],
                      DIS_EARLY_PAY |-> [assumption_value |-> Num(MaxPct - pct)]]
        IN  /\ page = "both"
            /\ ControlsAtStart
            /\ branchSelect = ToString(b)
            /\ selectedBranch = ToString(b)
            /\ monthlyRevenueData = b :> in[2]
            /\ assumptionsData = assumptions
            /\ revenueTypeAssumptions = EmptyObject
            /\ calculatedData = EmptyObject
            /\ revenueData = b :> [t \in Range(RevenueTypes) |-> SumRevenue(in[2], t, 12)]
            /\ edAssumptionsData = assumptions
            /\ edRevenueTypeAssumptions = EmptyObject
            /\ edCalculatedData = EmptyObject

\* the budget view calculates: calculateAllBranchValues()
YearCalculateBudget ==
    /\ DOMAIN calculatedData = {}
    /\ calculatedData' =
          calculateAllBranchValuesDouble(monthlyRevenueData, assumptionsData,
                                         selectedBranch)
    /\ UNCHANGED <<budgetStores, selectedBranch, editorStores, edCalculatedData,
                   page, pending, dailyStores, valueInput, browser, appState,
                   budgetControls, editorControls, fetches, outputs, lastRequest>>

\* the editor calculates: calculateAllValues()
YearCalculateEditor ==
    /\ DOMAIN edCalculatedData = {}
    /\ edCalculatedData' = calculateAllValuesDouble(revenueData, edAssumptionsData)
    /\ UNCHANGED <<budgetStores, selectedBranch, editorStores, calculatedData,
                   page, pending, dailyStores, valueInput, browser, appState,
                   budgetControls, editorControls, fetches, outputs, lastRequest>>

NextYear == YearCalculateBudget \/ YearCalculateEditor

SpecYear == InitYear /\ [][NextYear]_vars

(***************************************************************************)
(* Properties of the engine                                                *)
(***************************************************************************)

\* the values of one month of a branch of the budget view, by code
BudgetMonth(b, m) == Eager([code \in Codes |-> calculatedData[b][code].month[m]])

\* the values of a branch of the editor, by code
EditorBranch(b) ==
    Eager([code \in Codes |-> editorAmount(revenueData, edCalculatedData, b, code)])

\* the inputs as given: what is missing, or not a number, counts as 0
GivenRevenue(mrd, b, m, t) ==
    IF b \in DOMAIN mrd /\ m \in DOMAIN mrd[b] /\ t \in DOMAIN mrd[b][m]
       /\ ~IsNaN(parseFloat(mrd[b][m][t]))
    THEN parseFloat(mrd[b][m][t]) ELSE Zero

GivenEditorRevenue(rd, b, t) ==
    IF b \in DOMAIN rd /\ t \in DOMAIN rd[b] /\ ~IsNaN(rd[b][t]) THEN rd[b][t] ELSE Zero

GivenPct(ad, b, code) ==
    IF b \in DOMAIN ad /\ code \in DOMAIN ad[b] /\ ~IsNaN(ad[b][code].assumption_value)
    THEN ad[b][code].assumption_value ELSE Zero

GivenAllocation(rta, b, code) ==
    IF b \in DOMAIN rta /\ code \in DOMAIN rta[b] /\ ~IsNaN(rta[b][code])
    THEN rta[b][code] ELSE Zero

\* 1/100
Hundredth == <<1, 2>>

RECURSIVE SumOver(_, _)
SumOver(codes, v) ==
    IF codes = <<>> THEN Zero ELSE Add(v[Head(codes)], SumOver(Tail(codes), v))

AllPositive(v, codes) == \A code \in codes : IsPositive(v[code])

\* the branches both pages have calculated
BothCalculated == DOMAIN calculatedData \cap DOMAIN edCalculatedData

SumsHold(v) ==
    /\ v["TOTAL_DC"] = SumOver(directCostCodes, v)
    /\ v["TOTAL_GA"] = SumOver(gaCodes, v)
    /\ v["DIS_REJECTION"] = Add(v["DIS_REJECTION_MOH"], v["DIS_REJECTION_INS"])
    /\ v["DIS_SETTLEMENT"] =
          Add(Add(v["DIS_REJECTION"], v["DIS_VOLUME"]), v["DIS_EARLY_PAY"])

\* C1: for every branch, every month and every combination of inputs, in the
\* budget view and in the editor, TOTAL_DC is the sum of the 14 direct-cost
\* values, TOTAL_GA the sum of the 12 G&A values, DIS_REJECTION is
\* DIS_REJECTION_MOH + DIS_REJECTION_INS and DIS_SETTLEMENT is
\* DIS_REJECTION + DIS_VOLUME + DIS_EARLY_PAY.
C1_SubtotalsAreSums ==
    /\ \A b \in DOMAIN calculatedData : \A m \in Months : SumsHold(BudgetMonth(b, m))
    /\ \A b \in DOMAIN edCalculatedData : SumsHold(EditorBranch(b))

\* both pages have calculated a branch whose 14 direct costs, 12 G&A
\* expenses and four discounts are all positive
C1_Witness ==
    \E b \in BothCalculated :
        LET items == Range(directCostCodes) \cup Range(gaCodes) \cup SubRevenueItems
        IN  AllPositive(BudgetMonth(b, 1), items) /\ AllPositive(EditorBranch(b), items)

CascadeHolds(v) ==
    /\ v["REV_SUB"] = Add(Add(v["REV_IP"], v["REV_OP"]), v["REV_ER"])
    /\ Add(v["REV_NET"], v["DIS_SETTLEMENT"]) = v["REV_SUB"]
    /\ Add(v["GROSS_PROFIT"], v["TOTAL_DC"]) = v["REV_NET"]
    /\ Add(v["EBITDA"], v["TOTAL_GA"]) = Add(v["GROSS_PROFIT"], v["OTHER_INCOME"])
    /\ Add(Add(Add(v["NET_PROFIT"], v["FINANCE_COST"]), v["DEPRECIATION"]), v["ZAKAT"])
          = v["EBITDA"]
    /\ v["TOTAL_COMP_INCOME"] = Add(v["NET_PROFIT"], v["OCI"])

\* C2: for every branch, month and combination of inputs, the cascade totals
\* are exactly their defining expressions: REV_SUB = REV_IP + REV_OP + REV_ER,
\* REV_NET = REV_SUB - DIS_SETTLEMENT, GROSS_PROFIT = REV_NET - TOTAL_DC,
\* EBITDA = GROSS_PROFIT - TOTAL_GA + OTHER_INCOME,
\* NET_PROFIT = EBITDA - FINANCE_COST - DEPRECIATION - ZAKAT and
\* TOTAL_COMP_INCOME = NET_PROFIT + OCI (each difference stated as the sum
\* it is equivalent to).
C2_CascadeTotals ==
    /\ \A b \in DOMAIN calculatedData : \A m \in Months : CascadeHolds(BudgetMonth(b, m))
    /\ \A b \in DOMAIN edCalculatedData : CascadeHolds(EditorBranch(b))

\* both pages have calculated a branch where every term of the cascade is
\* positive, so that each total differs from the total before it
C2_Witness ==
    \E b \in BothCalculated :
        LET terms == {"REV_IP", "REV_OP", "REV_ER", "DIS_SETTLEMENT", "TOTAL_DC",
                      "TOTAL_GA", "OTHER_INCOME", "FINANCE_COST", "DEPRECIATION",
                      "ZAKAT", "OCI"}
        IN  /\ AllPositive(BudgetMonth(b, 12), terms)
            /\ AllPositive(EditorBranch(b), terms)
            /\ BudgetMonth(b, 12)["NET_PROFIT"] # BudgetMonth(b, 12)["EBITDA"]

\* value = REV_SUB x (own percentage / 100) x (allocation / 100)
RejectionFormulaHolds(v, ad, rta, b, code, allocation) ==
    v[code] =
        Mul(Mul(Mul(v["REV_SUB"], GivenPct(ad, b, code)), Hundredth),
            Mul(GivenAllocation(rta, b, allocation), Hundredth))

RejectionHolds(v, ad, rta, b) ==
    /\ RejectionFormulaHolds(v, ad, rta, b, "DIS_REJECTION_MOH", "REV_TYPE_MOH")
    /\ RejectionFormulaHolds(v, ad, rta, b, "DIS_REJECTION_INS", "REV_TYPE_INSURANCE")
    /\ v["REV_SUB"] = Num(160000) =>
          /\ (GivenPct(ad, b, "DIS_REJECTION_MOH") = Num(2)
                /\ GivenAllocation(rta, b, "REV_TYPE_MOH") = Num(40))
             => v["DIS_REJECTION_MOH"] = Num(1280)
          /\ (GivenPct(ad, b, "DIS_REJECTION_INS") = Num(3)
                /\ GivenAllocation(rta, b, "REV_TYPE_INSURANCE") = Num(50))
             => v["DIS_REJECTION_INS"] = Num(2400)
          /\ (v["DIS_REJECTION_MOH"] = Num(1280) /\ v["DIS_REJECTION_INS"] = Num(2400))
             => v["DIS_REJECTION"] = Num(3680)

RejectionItems == {"DIS_REJECTION_MOH", "DIS_REJECTION_INS", "DIS_REJECTION"}

\* the items computed before the rejection expense, or beside it
BeforeRejection ==
    {"REV_IP", "REV_OP", "REV_ER", "REV_SUB", "DIS_VOLUME", "DIS_EARLY_PAY"}

\* the allocations that enter a formula
UsedAllocations == {"REV_TYPE_MOH", "REV_TYPE_INSURANCE"}

WithoutAllocations == EmptyObject

OnlyUsed(rta) == [b \in DOMAIN rta |-> Restrict(rta[b], DOMAIN rta[b] \cap UsedAllocations)]

\* the values of `items` are those the budget view computes from the
\* allocations `rta` in place of the stored ones
BudgetUnchangedUnder(rta, items) ==
    \A b \in DOMAIN calculatedData : \A m \in Months :
        LET other == calculateMonthValues(monthlyRevenueData, assumptionsData, rta, b, m)
        IN  \A code \in items : calculatedData[b][code].month[m] = other[code]

EditorUnchangedUnder(rta, items) ==
    \A b \in DOMAIN edCalculatedData :
        LET other == calculateValues(revenueData, edAssumptionsData, rta, b)
        IN  \A code \in items \ RevenueItems : edCalculatedData[b][code] = other[code]

NoRejection(b) ==
    /\ b \in DOMAIN calculatedData =>
          \A m \in Months : \A code \in RejectionItems :
              calculatedData[b][code].month[m] = Zero
    /\ b \in DOMAIN edCalculatedData =>
          \A code \in RejectionItems : edCalculatedData[b][code] = Zero

RejectionFormulas ==
    /\ \A b \in DOMAIN calculatedData : \A m \in Months :
          RejectionHolds(BudgetMonth(b, m), assumptionsData, revenueTypeAssumptions, b)
    /\ \A b \in DOMAIN edCalculatedData :
          RejectionHolds(EditorBranch(b), edAssumptionsData, edRevenueTypeAssumptions, b)

\* C3, as amended: DIS_REJECTION_MOH = REV_SUB x (assumption / 100) x
\* (allocation(REV_TYPE_MOH) / 100) and DIS_REJECTION_INS likewise with
\* REV_TYPE_INSURANCE; for REV_SUB = 160000 that is 1280 (2%, 40%) and 2400
\* (3%, 50%), hence DIS_REJECTION = 3680.  No allocation enters any other
\* formula: the raw revenue, REV_SUB, DIS_VOLUME and DIS_EARLY_PAY do not
\* depend on the allocations, the allocations other than REV_TYPE_MOH and
\* REV_TYPE_INSURANCE change no value, and the items after the rejection
\* expense depend on the allocations only through the rejection values
\* (where these are 0, every value is the one computed without allocations).
C3_RejectionTwoPercentages ==
    /\ RejectionFormulas
    /\ BudgetUnchangedUnder(WithoutAllocations, BeforeRejection)
    /\ EditorUnchangedUnder(WithoutAllocations, BeforeRejection)
    /\ BudgetUnchangedUnder(OnlyUsed(revenueTypeAssumptions), Codes)
    /\ EditorUnchangedUnder(OnlyUsed(edRevenueTypeAssumptions), Codes)
    /\ \A b \in BRANCH_IDS :
          NoRejection(b) =>
              /\ b \in DOMAIN calculatedData =>
                    \A m \in Months :
                        BudgetMonth(b, m) =
                            calculateMonthValues(monthlyRevenueData, assumptionsData,
                                                 WithoutAllocations, b, m)
              /\ b \in DOMAIN edCalculatedData =>
                    edCalculatedData[b] =
                        calculateValues(revenueData, edAssumptionsData,
                                        WithoutAllocations, b)

\* C3, as the specification states it: the two rejection formulas and the
\* scenario, and no line item other than the rejection expense has a value
\* that depends on a revenue-type allocation.
C3_NoOtherItemDependsOnAllocation ==
    /\ RejectionFormulas
    /\ BudgetUnchangedUnder(WithoutAllocations, Codes \ RejectionItems)
    /\ EditorUnchangedUnder(WithoutAllocations, Codes \ RejectionItems)

\* both pages have calculated the scenario: REV_SUB = 160000, rejections of
\* 1280 and 2400, DIS_REJECTION = 3680, with costs that follow the rejection
C3_Witness ==
    \E b \in BothCalculated :
        /\ BudgetMonth(b, 1)["REV_SUB"] = Num(160000)
        /\ BudgetMonth(b, 1)["DIS_REJECTION_MOH"] = Num(1280)
        /\ BudgetMonth(b, 1)["DIS_REJECTION_INS"] = Num(2400)
        /\ BudgetMonth(b, 1)["DIS_REJECTION"] = Num(3680)
        /\ EditorBranch(b)["DIS_REJECTION"] = Num(3680)
        /\ IsPositive(BudgetMonth(b, 1)["TOTAL_DC"])

PercentFormulaHolds(v, ad, b, code, base) ==
    v[code] = Mul(Mul(v[base], GivenPct(ad, b, code)), Hundredth)

BasesHold(v, ad, rta, b) ==
    /\ \A code \in {"DIS_VOLUME", "DIS_EARLY_PAY"} :
          PercentFormulaHolds(v, ad, b, code, "REV_SUB")
    /\ RejectionFormulaHolds(v, ad, rta, b, "DIS_REJECTION_MOH", "REV_TYPE_MOH")
    /\ RejectionFormulaHolds(v, ad, rta, b, "DIS_REJECTION_INS", "REV_TYPE_INSURANCE")
    /\ \A code \in NetItems : PercentFormulaHolds(v, ad, b, code, "REV_NET")
    /\ v["REV_NET"] = Num(153920) =>
          \A code \in Range(directCostCodes) :
              GivenPct(ad, b, code) = Num(10) =>
                  /\ v[code] = Num(15392)
                  /\ (\A other \in Range(directCostCodes) \ {code} :
                          GivenPct(ad, b, other) = Zero)
                     => /\ v["TOTAL_DC"] = Num(15392)
                        /\ v["GROSS_PROFIT"] = Num(138528)

\* C4: the four discount-stage items take REV_SUB as their base and the 14
\* direct costs, the 12 G&A items, OTHER_INCOME, FINANCE_COST, DEPRECIATION,
\* ZAKAT and OCI take REV_NET; each percentage is divided by 100 exactly
\* once, value = base x percent / 100; for REV_NET = 153920 a 10% direct cost
\* is 15392 and, when it is the only cost, TOTAL_DC = 15392 and
\* GROSS_PROFIT = 138528.
C4_BasesAndSingleDivision ==
    /\ \A b \in DOMAIN calculatedData : \A m \in Months :
          BasesHold(BudgetMonth(b, m), assumptionsData, revenueTypeAssumptions, b)
    /\ \A b \in DOMAIN edCalculatedData :
          BasesHold(EditorBranch(b), edAssumptionsData, edRevenueTypeAssumptions, b)

\* the budget view has calculated REV_NET = 153920 with one direct cost of
\* 10% as the only cost: that cost and TOTAL_DC are 15392, GROSS_PROFIT 138528
C4_Witness ==
    \E b \in DOMAIN calculatedData : \E code \in Range(directCostCodes) :
        /\ GivenPct(assumptionsData, b, code) = Num(10)
        /\ BudgetMonth(b, 1)["REV_NET"] = Num(153920)
        /\ BudgetMonth(b, 1)[code] = Num(15392)
        /\ BudgetMonth(b, 1)["TOTAL_DC"] = Num(15392)
        /\ BudgetMonth(b, 1)["GROSS_PROFIT"] = Num(138528)

\* branch b has the same inputs in the editor as in month m of the budget view
SameInputs(b, m) ==
    /\ \A t \in Range(RevenueTypes) :
          GivenRevenue(monthlyRevenueData, b, m, t) = GivenEditorRevenue(revenueData, b, t)
    /\ \A code \in AssumptionItems :
          GivenPct(assumptionsData, b, code) = GivenPct(edAssumptionsData, b, code)
    /\ \A code \in Range(REVENUE_TYPE_CONFIG) :
          GivenAllocation(revenueTypeAssumptions, b, code)
              = GivenAllocation(edRevenueTypeAssumptions, b, code)

FilledMonthlyRevenue(mrd, b) ==
    b :> [m \in Months |->
            [t \in Range(RevenueTypes) |-> JNum(GivenRevenue(mrd, b, m, t))]]

FilledRevenue(rd, b) ==
    b :> [t \in Range(RevenueTypes) |-> GivenEditorRevenue(rd, b, t)]

FilledAssumptions(ad, b) ==
    b :> [code \in AssumptionItems |-> [assumption_value |-> GivenPct(ad, b, code)]]

FilledAllocations(rta, b) ==
    b :> [code \in Range(REVENUE_TYPE_CONFIG) |-> GivenAllocation(rta, b, code)]

\* C10: the engine completes on missing inputs and treats them as 0: for a
\* branch with no revenue entry for a month, no assumption set, no
\* allocation set, or any of them in part, every value it computes is a
\* number, and is the value it computes when each absent revenue amount,
\* assumption percentage and allocation percentage is given as 0.
C10_MissingInputsCountAsZero ==
    /\ \A b \in DOMAIN calculatedData :
          /\ \A code \in Codes :
                /\ ~IsNaN(calculatedData[b][code].fy_total)
                /\ \A m \in Months : ~IsNaN(calculatedData[b][code].month[m])
          /\ calculatedData[b] =
                calculateBranchValues(FilledMonthlyRevenue(monthlyRevenueData, b),
                                      FilledAssumptions(assumptionsData, b),
                                      FilledAllocations(revenueTypeAssumptions, b), b)
    /\ \A b \in DOMAIN edCalculatedData :
          /\ \A code \in Codes \ RevenueItems : ~IsNaN(edCalculatedData[b][code])
          /\ edCalculatedData[b] =
                calculateValues(FilledRevenue(revenueData, b),
                                FilledAssumptions(edAssumptionsData, b),
                                FilledAllocations(edRevenueTypeAssumptions, b), b)

\* both pages have calculated a branch that has neither an assumption set
\* nor an allocation set and whose revenue entry lacks a care type and holds
\* a null; the editor has also calculated a branch with no data at all
C10_Witness ==
    \E b \in BothCalculated :
        /\ b \notin DOMAIN assumptionsData \cup DOMAIN revenueTypeAssumptions
        /\ b \notin DOMAIN edAssumptionsData \cup DOMAIN edRevenueTypeAssumptions
        /\ b \in DOMAIN monthlyRevenueData
        /\ "OP" \notin DOMAIN monthlyRevenueData[b][1]
        /\ monthlyRevenueData[b][1]["ER"] = JNull
        /\ BudgetMonth(b, 1)["NET_PROFIT"] = Num(7)
        /\ EditorBranch(b)["NET_PROFIT"] = Num(7)
        /\ \E other \in DOMAIN edCalculatedData \ DOMAIN revenueData :
              edCalculatedData[other]["NET_PROFIT"] = Zero

(***************************************************************************)
(* Properties of the budget view and of the editor                         *)
(***************************************************************************)

\* the branches the selection stands for
Selection == {b \in BRANCH_IDS : selectedBranch \in {"all", ToString(b)}}

\* the sum of value[x] over the x of S
RECURSIVE SumOfSet(_, _)
SumOfSet(S, value) ==
    IF S = {} THEN Zero
    ELSE LET x == CHOOSE y \in S : TRUE
         IN  Add(value[x], SumOfSet(S \ {x}, value))

FiscalTotalsHold(code) ==
    /\ \A b \in Selection :
          calculatedData[b][code].fy_total = SumOfSet(Months, calculatedData[b][code].month)
    /\ createDataRow(calculatedData, selectedBranch, code).fy_total =
          formatCurrency(SumOfSet(Selection,
                                  [b \in Selection |-> calculatedData[b][code].fy_total]))

AggregateOf(code, m) ==
    SumOfSet(Selection,
             [b \in Selection |->
                IF b \in DOMAIN calculatedData THEN calculatedData[b][code].month[m]
                ELSE Zero])

AggregationHolds(code) ==
    LET row == aggregateRow(calculatedData, getSelectedBranches(selectedBranch), code)
        expected == Eager([m \in Months |-> AggregateOf(code, m)])
    IN  /\ \A m \in Months : row.month[m] = expected[m]
        /\ rendered =>
              createDataRow(calculatedData, selectedBranch, code).month =
                 [m \in Months |-> formatCurrency(expected[m])]
        /\ exported =>
              exportRow(calculatedData, selectedBranch, code).month =
                 [m \in Months |-> MathRound(expected[m])]
        /\ \A b \in BRANCH_IDS :
              selectedBranch = ToString(b) /\ b \in DOMAIN calculatedData =>
                 row.month = calculatedData[b][code].month

\* C7: in the table and in the export, for every line item and every month
\* the aggregated month value is the sum of calculatedData[b][item][month]
\* over exactly the branches getSelectedBranches returns: the branch's own
\* value when one branch is selected, the sum over every branch for "all".
C7_AggregationOverSelectedBranches ==
    (rendered \/ exported) /\ page = "budget" =>
        \A code \in Codes : AggregationHolds(code)

\* one branch is selected and exported while calculatedData holds every
\* branch, two of them with a positive net revenue in the month
C7_Witness ==
    /\ exported /\ page = "budget" /\ selectedBranch = "1"
    /\ DOMAIN calculatedData = BRANCH_IDS
    /\ IsPositive(calculatedData[1]["REV_NET"].month[3])
    /\ IsPositive(calculatedData[3]["REV_NET"].month[3])
    /\ AggregateOf("REV_NET", 3) = calculatedData[1]["REV_NET"].month[3]

\* what the budget view stores of the responses for a branch, a year and a
\* scenario, and what it calculates from them
FetchedMonthlyRevenue(b, year, scenario) ==
    BranchEntry(b, ServerMonthlyRevenue(b, year, scenario))

FetchedAssumptions(b, year, scenario) ==
    LET items == ServerAssumptions(b, year, scenario).assumptions
    IN  b :> assumptionsFrom(items, Len(items))

FetchedAllocations(b, year, scenario) ==
    LET items == ServerAssumptions(b, year, scenario).assumptions
    IN  b :> revenueTypesFrom(items, Len(items))

FetchedValues(b, year, scenario) ==
    calculateBranchValues(FetchedMonthlyRevenue(b, year, scenario),
                          FetchedAssumptions(b, year, scenario),
                          FetchedAllocations(b, year, scenario), b)

\* the same for the editor, the revenue being requested for one scenario and
\* the assumptions for another
FetchedRevenue(b, year, scenario) ==
    b :> editorRevenueFrom(ServerRevenue(b, year, scenario), "ok")

FetchedEditorValues(b, year, revenueScenario, scenario) ==
    calculateValues(FetchedRevenue(b, year, revenueScenario),
                    FetchedAssumptions(b, year, scenario),
                    FetchedAllocations(b, year, scenario), b)

\* the last response of a load arrives
LoadCompletes == fetches # {} /\ fetches' = {}

\* the budget view when a load of several branches has calculated and
\* rendered: a selected branch whose requests cannot fail has the values of
\* its own responses, a selected branch whose requests can fail has the
\* values of what is stored for it, what is missing counting as 0
BudgetSurvivesFailure ==
    LET last == lastRequest[1]
    IN  /\ saved
        /\ status = Shown("success", "Loaded budget")
        /\ \A b \in Selection :
              /\ b \in DOMAIN calculatedData
              /\ b \in last.branches \ FaultyBranches =>
                    calculatedData[b] = FetchedValues(b, last.year, last.scenario)
              /\ b \in FaultyBranches =>
                    calculatedData[b] =
                       calculateBranchValues(FilledMonthlyRevenue(monthlyRevenueData, b),
                                             FilledAssumptions(assumptionsData, b),
                                             FilledAllocations(revenueTypeAssumptions, b), b)

\* the editor when a load has rendered and calculated: the same, a branch whose revenue request failed
\* holding zeros as its revenue
EditorSurvivesFailure ==
    LET last == lastRequest[1]
    IN  /\ saved
        /\ DOMAIN revenueData = BRANCH_IDS
        /\ \A b \in BRANCH_IDS \ FaultyBranches :
              edCalculatedData[b] =
                 FetchedEditorValues(b, last.year, last.scenario, edCurrentScenario)
        /\ \A b \in FaultyBranches :
              /\ revenueData[b] \in
                    {FetchedRevenue(b, last.year, last.scenario)[b],
                     [t \in Range(RevenueTypes) |-> Zero]}
              /\ edCalculatedData[b] =
                    calculateValues(revenueData,
                                    FilledAssumptions(edAssumptionsData, b),
                                    FilledAllocations(edRevenueTypeAssumptions, b), b)

\* C9: when the revenue or the assumptions request of one branch fails, with
\* a network error or a status that is not OK, while the others succeed, the
\* load completes: every other branch has exactly the values computed from
\* its own responses, and the failed branch is calculated with what is
\* missing counted as 0.
C9_PartialFailureIsIsolated ==
    /\ [][LoadCompletes /\ (page = "editor" \/ Cardinality(lastRequest[1].branches) > 1)
             => rendered']_vars
    /\ [](rendered /\ page = "budget" /\ Cardinality(lastRequest[1].branches) > 1
             => BudgetSurvivesFailure)
    /\ [](rendered /\ page = "editor" => EditorSurvivesFailure)

\* all branches were loaded, neither response of branch 2 was stored, and
\* the table is rendered with zeros for branch 2 and the values of the others
C9_Witness ==
    /\ rendered /\ page = "budget" /\ selectedBranch = "all" /\ fetches = {}
    /\ lastRequest[1].branches = BRANCH_IDS
    /\ 2 \notin DOMAIN monthlyRevenueData \cup DOMAIN assumptionsData
    /\ DOMAIN monthlyRevenueData = BRANCH_IDS \ {2, 5}
    /\ calculatedData[2]["REV_NET"].fy_total = Zero
    /\ IsPositive(calculatedData[1]["REV_NET"].fy_total)
    /\ IsPositive(calculatedData[3]["NET_PROFIT"].fy_total)

\* the stores of the budget view hold, for the branches of the most recent
\* request and for no other, what the API returns for its year and scenario
StoresOfLastRequest ==
    LET last == lastRequest[1]
    IN  /\ DOMAIN monthlyRevenueData \cup DOMAIN assumptionsData
              \cup DOMAIN revenueTypeAssumptions \subseteq last.branches
        /\ \A b \in DOMAIN monthlyRevenueData :
              monthlyRevenueData[b] = FetchedMonthlyRevenue(b, last.year, last.scenario)[b]
        /\ \A b \in DOMAIN assumptionsData :
              assumptionsData[b] = FetchedAssumptions(b, last.year, last.scenario)[b]
        /\ \A b \in DOMAIN revenueTypeAssumptions :
              revenueTypeAssumptions[b] = FetchedAllocations(b, last.year, last.scenario)[b]

\* C8: when loads overlap, the stores and the values calculated from them
\* hold, once every response has arrived, only what was fetched for the most
\* recent request.
C8_OnlyTheLatestRequestCounts ==
    fetches = {} /\ lastRequest # <<>> => StoresOfLastRequest

\* the line items of branch b as the budget view's engine computes them for
\* a month from the stores of the editor
BudgetEngineOnEditorStores(b) ==
    calculateMonthValues(b :> [m \in Months |->
                                 [t \in Range(RevenueTypes) |->
                                    JNum(GivenEditorRevenue(revenueData, b, t))]],
                         edAssumptionsData, edRevenueTypeAssumptions, b, 1)

\* C11: an assumption or an allocation whose loaded or entered value is not
\* a number contributes exactly 0 at every call site: what the budget view
\* and the editor calculate is what they calculate with each such value
\* written as 0, and the editor's values are those the engine of the budget
\* view computes from the same stores.
C11_NonNumericCountsAsZero ==
    /\ \A b \in DOMAIN calculatedData :
          calculatedData[b] =
             calculateBranchValues(monthlyRevenueData,
                                   FilledAssumptions(assumptionsData, b),
                                   FilledAllocations(revenueTypeAssumptions, b), b)
    /\ \A b \in DOMAIN edCalculatedData \cap DOMAIN revenueData :
          /\ edCalculatedData[b] =
                calculateValues(revenueData, FilledAssumptions(edAssumptionsData, b),
                                FilledAllocations(edRevenueTypeAssumptions, b), b)
          /\ \A code \in Codes : EditorBranch(b)[code] = BudgetEngineOnEditorStores(b)[code]

\* the response held a direct cost and an allocation that are no numbers,
\* a text that is no number was typed over the volume discount of 10 %, and
\* both pages have calculated: the three contribute 0
C11_Witness ==
    /\ 1 \in BothCalculated
    /\ IsNaN(assumptionsData[1]["DC_CONSUMABLES"].assumption_value)
    /\ IsNaN(edAssumptionsData[1]["DC_CONSUMABLES"].assumption_value)
    /\ IsNaN(edRevenueTypeAssumptions[1]["REV_TYPE_MOH"])
    /\ assumptionsData[1]["DIS_VOLUME"].assumption_value = Num(10)
    /\ edAssumptionsData[1]["DIS_VOLUME"].assumption_value = Zero
    /\ edCalculatedData[1]["DC_CONSUMABLES"] = Zero
    /\ edCalculatedData[1]["DIS_VOLUME"] = Zero
    /\ edCalculatedData[1]["DIS_REJECTION_MOH"] = Zero
    /\ BudgetMonth(1, 1)["DC_CONSUMABLES"] = Zero
    /\ IsPositive(BudgetMonth(1, 1)["DIS_VOLUME"])
    /\ IsPositive(edCalculatedData[1]["REV_NET"])

\* the result of the budget view holds, for a branch, an amount for every
\* line item of the catalog in every month and as the year's total
BudgetResultIsComplete(b) ==
    /\ DOMAIN calculatedData[b] = Codes
    /\ \A code \in Codes :
          /\ DOMAIN calculatedData[b][code].month = Months
          /\ \A m \in Months : ~IsNaN(calculatedData[b][code].month[m])
          /\ ~IsNaN(calculatedData[b][code].fy_total)

\* the result of the editor holds, for a branch, an amount for every line
\* item of the catalog
EditorResultIsComplete(b) ==
    /\ DOMAIN edCalculatedData[b] = Codes
    /\ \A code \in Codes : ~IsNaN(edCalculatedData[b][code])

\* C12: after a computation the result holds an amount for each code of
\* LINE_ITEMS_CONFIG, the raw revenue items REV_IP, REV_OP and REV_ER
\* included, in the budget view and in the editor.
C12_EveryLineItemHasAValue ==
    /\ \A b \in DOMAIN calculatedData : BudgetResultIsComplete(b)
    /\ \A b \in DOMAIN edCalculatedData : EditorResultIsComplete(b)

\* The values of month `m` of branch `b` calculated from the revenue of that
\* month and of that branch alone
MonthOnItsOwn(b, m) ==
    calculateMonthValues(b :> (m :> monthlyRevenueData[b][m]), assumptionsData,
                         revenueTypeAssumptions, b, m)

\* The call that calculates month `m` of branch `b` is being made
CalculatesMonth(b, m) ==
    /\ pending # <<>> /\ pending' # <<>>
    /\ pending[1] = b /\ pending'[1] = b
    /\ m \in pending[2] /\ pending'[2] = pending[2] \ {m}

\* The call leaves alone what is not month `m` of branch `b`
LeavesTheRestAlone(b, m) ==
    /\ \A c \in DOMAIN calculatedData \ {b} :
          c \in DOMAIN calculatedData' /\ calculatedData'[c] = calculatedData[c]
    /\ \A code \in Codes :
          /\ calculatedData'[b][code].fy_total = calculatedData[b][code].fy_total
          /\ \A other \in Months \ {m} :
                calculatedData'[b][code].month[other] = calculatedData[b][code].month[other]

\* Every month calculated so far holds what its own revenue gives
CalculatedMonthsStandAlone ==
    pending # <<>> =>
        \A m \in Months \ pending[2] :
            LET values == MonthOnItsOwn(pending[1], m)
            IN  \A code \in Codes :
                    calculatedData[pending[1]][code].month[m] = values[code]

\* Whatever the order of the calls was, the result is the one of the code
OrderDoesNotMatter ==
    pending = <<>> /\ LastBranch \in DOMAIN calculatedData =>
        calculatedData[LastBranch] =
            calculateBranchValues(monthlyRevenueData, assumptionsData,
                                  revenueTypeAssumptions, LastBranch)

\* C13: the periods are independent.  calculateMonthValues(b, m) reads the
\* revenue of month m of branch b only and writes the month m entries of branch
\* b only: the other months, every fiscal total and the other branches stay as
\* they were, and making the twelve calls in any order gives the same
\* calculatedData.
C13_PeriodsAreIndependent ==
    /\ [][\A b \in BRANCH_IDS, m \in Months :
            CalculatesMonth(b, m) => LeavesTheRestAlone(b, m)]_vars
    /\ [](CalculatedMonthsStandAlone /\ OrderDoesNotMatter)

\* Month 12 has been calculated before month 1, and the result differs from
\* the zero the entry started with
C13_Witness ==
    /\ pending # <<>>
    /\ 1 \in pending[2] /\ 12 \notin pending[2]
    /\ IsPositive(calculatedData[pending[1]]["REV_SUB"].month[12])
    /\ calculatedData[pending[1]]["REV_SUB"].month[1] = Zero
    /\ 11 \notin pending[2] /\ 2 \in pending[2]
    /\ DOMAIN calculatedData = BRANCH_IDS

\* What branch `b` adds to the month `m` of a line item: its value when the
\* branch, the line item and the month are there and the value is a number
ContributionOf(b, code, m) ==
    IF /\ b \in DOMAIN calculatedData
       /\ code \in DOMAIN calculatedData[b]
       /\ m \in DOMAIN calculatedData[b][code].month
       /\ ~IsNaN(calculatedData[b][code].month[m])
    THEN calculatedData[b][code].month[m]
    ELSE Zero

MissingAddsZero(code) ==
    LET expected ==
            Eager([m \in Months |->
                    SumOfSet(Selection, [b \in Selection |-> ContributionOf(b, code, m)])])
    IN  /\ \A m \in Months : ~IsNaN(expected[m])
        /\ rendered =>
              createDataRow(calculatedData, selectedBranch, code).month =
                 [m \in Months |-> formatCurrency(expected[m])]
        /\ exported =>
              exportRow(calculatedData, selectedBranch, code).month =
                 [m \in Months |-> MathRound(expected[m])]

ZeroBudgetInputs(b) ==
    /\ b \in DOMAIN monthlyRevenueData /\ b \in DOMAIN assumptionsData
    /\ \A m \in Months : \A t \in DOMAIN monthlyRevenueData[b][m] :
          monthlyRevenueData[b][m][t] \in {JNum(Zero), JStr(Zero), JNull}
    /\ DOMAIN assumptionsData[b] = AssumptionItems
    /\ \A code \in AssumptionItems : assumptionsData[b][code].assumption_value = Zero

ZeroEditorInputs(b) ==
    /\ b \in DOMAIN revenueData /\ b \in DOMAIN edAssumptionsData
    /\ \A t \in DOMAIN revenueData[b] : revenueData[b][t] = Zero
    /\ DOMAIN edAssumptionsData[b] = AssumptionItems
    /\ \A code \in AssumptionItems : edAssumptionsData[b][code].assumption_value = Zero

ZeroRow == [month |-> [m \in Months |-> Zero], fy_total |-> Zero]

\* C15: zero assumptions and zero revenue give zero for every line item, in
\* every month, in the fiscal total and in the rows aggregated over the
\* branch alone or over every branch; the editor's values are zero as well.
C15_ZeroInZeroOut ==
    \A b \in EngineBranches :
        /\ b \in DOMAIN calculatedData /\ ZeroBudgetInputs(b) =>
              \A code \in Codes :
                 /\ calculatedData[b][code] = ZeroRow
                 /\ \A sel \in {"all", ToString(b)} :
                       /\ aggregateRow(calculatedData, getSelectedBranches(sel), code) = ZeroRow
                       /\ createDataRow(calculatedData, sel, code) = ZeroRow
                       /\ exportRow(calculatedData, sel, code) = ZeroRow
        /\ b \in DOMAIN edCalculatedData /\ ZeroEditorInputs(b) =>
              \A code \in DOMAIN edCalculatedData[b] : edCalculatedData[b][code] = Zero

\* both pages have calculated from zero revenue, held as a text, a null and
\* a number, zero percentages and the allocations of the scenario
C15_Witness ==
    /\ 1 \in DOMAIN calculatedData /\ 1 \in DOMAIN edCalculatedData
    /\ ZeroBudgetInputs(1) /\ ZeroEditorInputs(1)
    /\ monthlyRevenueData[1][1]["IP"] = JStr(Zero)
    /\ 1 \in DOMAIN revenueTypeAssumptions
    /\ revenueTypeAssumptions[1] = ScenarioAllocations
    /\ calculatedData[1]["TOTAL_COMP_INCOME"].fy_total = Zero
    /\ CalculatedItems \subseteq DOMAIN edCalculatedData[1]

\* The sum over the months of the unrounded aggregates of a line item
FullPrecisionTotal(code) ==
    SumOfSet(Months, [m \in Months |-> AggregateOf(code, m)])

\* The sum over the months of the aggregates as the worksheet holds them
TotalOfRoundedMonths(code) ==
    SumOfSet(Months, [m \in Months |-> MathRound(AggregateOf(code, m))])

TotalIsRoundedOnce(code) ==
    LET total == FullPrecisionTotal(code)
    IN  /\ rendered =>
              createDataRow(calculatedData, selectedBranch, code).fy_total =
                 formatCurrency(total)
        /\ exported =>
              exportRow(calculatedData, selectedBranch, code).fy_total = MathRound(total)

\* C16: totals are computed from the full-precision month values and rounded
\* only when shown.  The FY Total of the table and of the worksheet is the
\* rounding of the sum of the unrounded month aggregates; no month value is
\* rounded before it is added.
C16_TotalsFromFullPrecision ==
    (rendered \/ exported) /\ page = "budget" =>
        \A code \in Codes : TotalIsRoundedOnce(code)

\* a worksheet is written in which the FY Total of the net revenue is not
\* the sum of the twelve month cells of its row
C16_Witness ==
    /\ exported /\ page = "budget"
    /\ ~IsNaN(FullPrecisionTotal("REV_NET"))
    /\ exportRow(calculatedData, selectedBranch, "REV_NET").fy_total
          # TotalOfRoundedMonths("REV_NET")

(***************************************************************************)
(* Properties of the daily budget                                          *)
(***************************************************************************)
RowsOf(stayType) ==
    {i \in 1 .. Len(dailyBudgetData) : stayTypeOf(dailyBudgetData[i]) = stayType}

FieldOf(rows, field) == [i \in rows |-> OrZero(dailyBudgetData[i][field])]

\* The fraction a cost per episode is expected to be, <<numerator,
\* denominator>>, or <<>> when it is 0
ExpectedCpe(stayType) ==
    IF stayType \in {"LTC", "Non-LTC"}
    THEN LET counted == {i \in RowsOf(stayType) : IsPositive(dailyBudgetData[i].cpe)}
         IN  IF counted = {} THEN <<>>
             ELSE <<SumOfSet(counted, FieldOf(counted, "cpe")), Num(Cardinality(counted))>>
    ELSE LET episodes == SumOfSet(RowsOf(stayType), FieldOf(RowsOf(stayType), "episodes"))
         IN  IF episodes = Zero THEN <<>>
             ELSE <<SumOfSet(RowsOf(stayType), FieldOf(RowsOf(stayType), "revenue")),
                    episodes>>

\* The fraction q is a / b
EqualsQuotient(q, a, b) == q[1] * b[1] * Pow10(a[2]) = a[1] * Pow10(b[2]) * q[2]

\* The cell shows the whole number nearest to the positive fraction q
ShowsRounded(cell, q) ==
    /\ Len(cell) = 1
    /\ (2 * cell[1] - 1) * q[2] <= 2 * q[1]
    /\ 2 * q[1] < (2 * cell[1] + 1) * q[2]

CpeIsAsExpected(stayType) ==
    LET expected == ExpectedCpe(stayType)
        avg == avgCPE(stayType, stayTypeMetrics(dailyBudgetData)[stayType])
        cell == summaryOf(dailyBudgetData, sourceTotals).rows[stayType].cpe
    IN  IF expected = <<>>
        THEN avg[1] = 0 /\ cell = <<>>
        ELSE /\ avg[2] > 0
             /\ EqualsQuotient(avg, expected[1], expected[2])
             /\ IF avg[1] > 0 THEN ShowsRounded(cell, avg) ELSE cell = <<>>

\* C17: the rule of the cost per episode goes by the stay type.  For LTC and
\* Non-LTC it is the average of the cpe values of the rows that are greater
\* than 0, and 0 when there is none; for every other stay type it is the
\* revenue of the stay type divided by its episodes, and 0 when the episodes
\* are 0.  The summary shows the value without fraction digits, and a dash
\* for 0.
C17_CostPerEpisodeByStayType ==
    rendered /\ page = "daily" =>
        \A stayType \in {stayTypeOf(dailyBudgetData[i]) : i \in 1 .. Len(dailyBudgetData)} :
            CpeIsAsExpected(stayType)

\* the summary shows an LTC row and an OP row for which the two rules give
\* different amounts: 30 as the average, 100 / 7 as revenue over episodes
C17_Witness ==
    /\ rendered /\ page = "daily"
    /\ DOMAIN stayTypeMetrics(dailyBudgetData) = {"LTC", "OP"}
    /\ summaryOf(dailyBudgetData, sourceTotals).rows["LTC"].cpe = <<30>>
    /\ summaryOf(dailyBudgetData, sourceTotals).rows["OP"].cpe = <<14>>

RowsOfMonth(month) ==
    {i \in 1 .. Len(dailyBudgetData) : dailyBudgetData[i].month = month}

SourcesOfMonth(month) ==
    {i \in 1 .. Len(lastRequest[1].sources) : lastRequest[1].sources[i].month = month}

SourceTotal(month, field) ==
    SumOfSet(SourcesOfMonth(month),
             [i \in SourcesOfMonth(month) |-> Num(lastRequest[1].sources[i].figures[field])])

EveryRow == 1 .. Len(dailyBudgetData)

AllocationOf(b, code) ==
    IF b \in DOMAIN edRevenueTypeAssumptions /\ code \in DOMAIN edRevenueTypeAssumptions[b]
       /\ ~IsNaN(edRevenueTypeAssumptions[b][code])
    THEN edRevenueTypeAssumptions[b][code]
    ELSE Zero

\* The Total % of a revenue type is the straight average of the allocations
\* of the branches in `counted`, and 0 when there is none
IsAverageOver(code, counted) ==
    LET avg == revenueTypeTotal(edRevenueTypeAssumptions, code)
    IN  IF counted = {} THEN avg[1] = 0
        ELSE /\ avg[2] > 0
             /\ EqualsQuotient(avg,
                               SumOfSet(counted, [b \in counted |-> AllocationOf(b, code)]),
                               Num(Cardinality(counted)))

\* C19, as the claim states it: the Total % of a revenue type is the average
\* of its allocation over the branches whose allocation is not zero, and 0
\* when no branch has one.
C19_AverageOverNonzeroBranches ==
    rendered /\ page = "editor" =>
        \A code \in Range(REVENUE_TYPE_CONFIG) :
            IsAverageOver(code, {b \in BRANCH_IDS : AllocationOf(b, code) # Zero})

\* C19, amended: the Total % of a revenue type is the average of its
\* allocation over the branches whose allocation is greater than 0, and 0
\* when no branch has one.
C19_AverageOverPositiveBranches ==
    rendered /\ page = "editor" =>
        \A code \in Range(REVENUE_TYPE_CONFIG) :
            IsAverageOver(code, {b \in BRANCH_IDS : IsPositive(AllocationOf(b, code))})

\* branches 1 and 3 hold 40 and 60, branch 2 a negative allocation: the
\* Total % is 50
C19_Witness ==
    /\ rendered /\ page = "editor"
    /\ AllocationOf(1, "REV_TYPE_MOH") = Num(40)
    /\ AllocationOf(2, "REV_TYPE_MOH") = Num(-5)
    /\ AllocationOf(3, "REV_TYPE_MOH") = Num(60)
    /\ EqualsQuotient(revenueTypeTotal(edRevenueTypeAssumptions, "REV_TYPE_MOH"),
                      Num(50), Num(1))

(***************************************************************************)
(* Properties of the version of the loaded assumptions                     *)
(***************************************************************************)
\* No load is in progress and one has been made
LoadIsComplete == fetches = {} /\ lastRequest # <<>>

\* The branches of the last load whose assumptions came with an ok response
LoadedSuccessfully(store) ==
    {b \in lastRequest[1].branches :
        b \in DOMAIN store /\ (b \in FaultyBranches => store[b] # EmptyObject)}

AnswerOf(b) == ServerAssumptions(b, lastRequest[1].year, lastRequest[1].scenario)

HighestOf(S) == IF S = {} THEN 0 ELSE CHOOSE x \in S : \A y \in S : y <= x

VersionIsOf(version, published, loaded) ==
    /\ version = HighestOf({AnswerOf(b).version : b \in loaded})
    /\ published = (\E b \in loaded : AnswerOf(b).is_published)

\* C20: after a load has completed, assumptionsVersion is the highest version
\* among the branches whose assumptions were loaded successfully, 0 when
\* none has a version, and assumptionsPublished holds exactly when one of
\* them is published, in whatever order the responses of the branches
\* arrived.
C20_VersionIsTheHighestLoaded ==
    LoadIsComplete =>
        /\ page = "budget" =>
              VersionIsOf(assumptionsVersion, assumptionsPublished,
                          LoadedSuccessfully(assumptionsData))
        /\ page = "editor" =>
              VersionIsOf(edAssumptionsVersion, edAssumptionsPublished,
                          LoadedSuccessfully(edAssumptionsData))

(***************************************************************************)
(* Properties of the daily budget over several visits                      *)
(***************************************************************************)
\* what a visit finds under the key of the calculation data
StoredCalculation == localStorage["budgetCalculationData"]

HasStoredCalculation == "budgetCalculationData" \in DOMAIN localStorage

SavedBy(user) == HasStoredCalculation /\ StoredCalculation.userId = <<user>>

\* the visit of `user` has taken the variables of the script from what was
\* stored if `restorable`, and has left them as declared if not
RestoresOnlyIf(user, restorable) ==
    DailyPageLoad(Session(user)) =>
        IF restorable
        THEN dailyStores' = <<StoredCalculation.dailyBudgetData,
                              StoredCalculation.sourceTotals,
                              StoredCalculation.detailData,
                              StoredCalculation.calculationParams>>
        ELSE dailyStores' = DeclaredDaily

LoadingAfterAuthentication ==
    {call \in calls : call.fn = "onLoad" /\ call.at \in {"config", "years"}}

\* C22: while the page is opened the configuration and the years are loaded
\* and the listeners are registered only when checkAuthentication() has
\* returned true, and each of them once: at most one handler is loading,
\* the listeners are registered at most once, and a click on Load starts
\* one loadYearData().
C22_AuthenticationFirstAndOnce ==
    /\ LoadingAfterAuthentication # {} => currentUser # <<>>
    /\ listeners > 0 => currentUser # <<>>
    /\ Cardinality(LoadingAfterAuthentication) <= 1
    /\ listeners <= 1
    /\ Cardinality({call \in calls : call.fn = "loadYearData"}) <= 1

\* the number typed as `text`, null for the empty text
TypedValue(text) == IF text = EmptyText THEN null ELSE text[2]

\* the text is not a number, or a number outside the limits of the type
FailsValidation(text, inputType) ==
    /\ text # EmptyText
    /\ \/ IsNaN(text[2])
       \/ /\ inputType = "Growth Rate"
          /\ IsNegative(Sub(text[2], Num(-100))) \/ IsPositive(Sub(text[2], Num(1000)))
       \/ /\ inputType = "Exact Value%"
          /\ IsNegative(text[2]) \/ IsPositive(Sub(text[2], Num(100)))
       \/ inputType = "Exact Value Number" /\ IsNegative(text[2])

\* the value as it is stored: a percentage divided by 100
StorageForm(value, inputType) ==
    IF value = null THEN null
    ELSE IF inputType \in {"Growth Rate", "Exact Value%"}
    THEN Normalise(value[1], value[2] + 2)
    ELSE value

\* the distance of two numbers is below 1e-7
Within(a, b) ==
    LET d == Sub(a, b)
    IN  IsNegative(Sub(d, <<1, 7>>)) /\ IsPositive(Add(d, <<1, 7>>))

OriginalValue(id) == (CHOOSE r \in Range(currentData) : r.id = id).value

EqualsOriginal(id, text, inputType) ==
    LET storage == StorageForm(TypedValue(text), inputType)
    IN  IF storage = null \/ OriginalValue(id) = null
        THEN storage = null /\ OriginalValue(id) = null
        ELSE Within(storage, OriginalValue(id))

OthersUnchanged(after, id) ==
    /\ DOMAIN after \ {id} = DOMAIN pendingChanges \ {id}
    /\ \A other \in DOMAIN pendingChanges \ {id} : after[other] = pendingChanges[other]

\* pendingChanges after `text` has been typed into the input of the record
\* `id`
AfterTyping(id, text) ==
    handleValueChange(TheApp, id, text, InputTypeOf(id), now).changes

\* C23: when a text is typed into the input of a record, a text that fails
\* the validation of the input type leaves pendingChanges unchanged; a value
\* whose storage form equals the original value of the record removes the
\* entry of the record unless it is marked deleted; any other value records
\* an entry with the storage value and the display value.  No other entry
\* changes.
C23_PendingChangesAreTheRealEdits ==
    \A id \in {r.id : r \in Range(currentData)} :
        \A text \in ValueTexts(InputTypeOf(id)) :
            LET after == AfterTyping(id, text)
            IN  /\ OthersUnchanged(after, id)
                /\ IF FailsValidation(text, InputTypeOf(id))
                   THEN after = pendingChanges
                   ELSE IF EqualsOriginal(id, text, InputTypeOf(id))
                   THEN IF IsDeleted(pendingChanges, id)
                        THEN after = pendingChanges
                        ELSE id \notin DOMAIN after
                   ELSE /\ id \in DOMAIN after
                        /\ after[id].value = StorageForm(TypedValue(text), InputTypeOf(id))
                        /\ after[id].displayValue = TypedValue(text)

\* a growth rate of -100 has been typed over a saved 5 %, and an invalid
\* text after it has changed nothing
C23_Witness ==
    /\ 1 \in DOMAIN pendingChanges
    /\ "value" \in DOMAIN pendingChanges[1]
    /\ pendingChanges[1].value = Num(-1)
    /\ pendingChanges[1].displayValue = Num(-100)
    /\ 3 \notin DOMAIN pendingChanges

(***************************************************************************)
(* Properties of the conversion between display and storage                *)
(***************************************************************************)

\* C24: what displayToStorage has stored is shown again by storageToDisplay
\* as the number that was typed: storageToDisplay(displayToStorage(v)) = v
\* for the percentage types; for every other input type both functions
\* leave the value as it is; null is converted to null in both directions.
C24_ConversionIsARoundTrip ==
    valueInput # <<>> =>
        /\ valueInput.at = "shown" => valueInput.shown = valueInput.typed
        /\ valueInput.at = "stored" /\ ~isPercentageType(valueInput.inputType)
              => valueInput.stored = valueInput.typed
        /\ valueInput.at = "stored" /\ valueInput.typed = null
              => valueInput.stored = null

(***************************************************************************)
(* Properties of saving the budget assumptions                             *)
(***************************************************************************)

\* the requests of saveAllChanges() that wait for their answer
SaveRequests == {call \in calls : call.fn = "saveAllChanges"
                                  /\ call.at \in {"create", "update", "new", "delete"}}

\* what saveAllChanges() leaves when the request `call` waits for is
\* answered with `outcome`
AfterAnswer(call, outcome) == saveAllChangesRest(Waiting(call), call, outcome)

ShowsError(app) == app.status # <<>> /\ app.status[1].type = "error"

\* C25: when a request of saveAllChanges (update, creation or deletion)
\* fails, be it by a response that is not ok or by a network error,
\* pendingChanges is retained unchanged, the persisted state is not removed
\* and an error status is shown; success is not reported.
C25_FailedSaveKeepsPendingChanges ==
    \A call \in SaveRequests : \A outcome \in AppOutcomes \ {"ok"} :
        LET after == AfterAnswer(call, outcome)
        IN  /\ after.changes = pendingChanges
            /\ after.storage = localStorage
            /\ ShowsError(after)

(***************************************************************************)
(* Properties of the Save button                                           *)
(***************************************************************************)

\* a record of the table has a value, saved or pending
SomeRecordHasValue ==
    \E i \in DOMAIN currentData :
        \/ currentData[i].value # null
        \/ /\ currentData[i].id \in DOMAIN pendingChanges
           /\ "value" \in DOMAIN pendingChanges[currentData[i].id]

UnsavedWork == DOMAIN pendingChanges # {} \/ (isNewYear /\ SomeRecordHasValue)

\* C30: whenever the page waits for the user, after any loads, value
\* changes, deletion marks, scenario switches, saves and state restores,
\* saveAllBtn is enabled if and only if pendingChanges is non-empty, or the
\* year is new and some record has a value.
C30_SaveButtonReflectsUnsavedWork ==
    AppIsQuiet => (saveAllBtn.disabled <=> ~UnsavedWork)

(***************************************************************************)
(* Properties of the branch selection of the budget view                   *)
(***************************************************************************)

\* C26: whenever the budget view renders or exports, the branches it
\* aggregates over and names in the title of the export, those of
\* getSelectedBranches(), are the branches whose data calculatedData holds,
\* which are the branches of the last load.
C26_FiguresDescribeTheLoadedBranches ==
    (rendered \/ exported) /\ page = "budget" =>
        /\ getSelectedBranches(selectedBranch) = DOMAIN calculatedData
        /\ lastRequest # <<>> => getSelectedBranches(selectedBranch) = lastRequest[1].branches

(***************************************************************************)
(* Properties of saving in the editor                                      *)
(***************************************************************************)

\* the records a saveAssumptions in flight has sent, the stores not having
\* changed since
SentRecords(f) ==
    allAssumptions(edAssumptionsData, edRevenueTypeAssumptions, edCalculatedData,
                   f.year, f.scenario)

\* C29: every record sent by saveAssumptions carries the year and the
\* scenario of the last completed load, for which the revenue and the
\* assumptions held in memory were loaded.
C29_SavedUnderTheLoadedYearAndScenario ==
    \A f \in fetches :
        f.kind = "save" /\ lastRequest # <<>> =>
            \A record \in SentRecords(f) :
                /\ record.year = lastRequest[1].year
                /\ record.scenario = lastRequest[1].scenario

(***************************************************************************)
(* Properties of the derived values of the editor                          *)
(***************************************************************************)

\* the session data a later visit reads back
StoredSession ==
    parsedSessionOf(editorSessionDataOf(edCurrentYear, edCurrentScenario, revenueData,
                                        edRevenueTypeAssumptions, edAssumptionsData,
                                        edCalculatedData))

\* C27: in the editor, whenever a handler has completed (the change of a
\* percentage or of an allocation, a load, a restore of the session) and
\* values have been calculated, calculatedData is what the engine makes of
\* the current revenueData, assumptionsData and revenueTypeAssumptions for
\* all six branches, and the session data written holds the same state: read
\* back, its calculatedData is what the engine makes of its stores.
C27_DerivedValuesAreNeverStale ==
    page = "editor" /\ fetches = {} /\ DOMAIN edCalculatedData # {} =>
        /\ DOMAIN edCalculatedData = BRANCH_IDS
        /\ edCalculatedData =
              calculateAllValues(revenueData, edAssumptionsData, edRevenueTypeAssumptions)
        /\ saved =>
              /\ StoredSession.calculatedData = edCalculatedData
              /\ StoredSession.calculatedData =
                    calculateAllValues(StoredSession.revenueData,
                                       StoredSession.assumptionsData,
                                       StoredSession.revenueTypeAssumptions)

\* the page has been loaded again and has restored a session that holds the
\* loaded revenue, a percentage typed for branch 1 and a percentage that was
\* no number when it was loaded, and has calculated from it
C27_Witness ==
    /\ page = "editor" /\ fetches = {} /\ rendered /\ ~saved
    /\ DOMAIN revenueData = BRANCH_IDS
    /\ 3 \in DOMAIN edAssumptionsData
    /\ "FINANCE_COST" \in DOMAIN edAssumptionsData[3]
    /\ edAssumptionsData[3]["FINANCE_COST"].assumption_value = null
    /\ 1 \in DOMAIN edAssumptionsData
    /\ "DIS_VOLUME" \in DOMAIN edAssumptionsData[1]
    /\ edAssumptionsData[1]["DIS_VOLUME"].assumption_value = Num(15)
    /\ DOMAIN edCalculatedData = BRANCH_IDS
    /\ IsPositive(edCalculatedData[1]["REV_NET"])

\* C28: for a branch with the same assumptions and allocations on both
\* pages, the fy_total the budget view computes for a line item from twelve
\* monthly revenue figures is the value the editor computes for that item
\* from annual revenue that is the sum of those figures, by care type.
C28_YearAgreesWithEditor ==
    \A b \in BothCalculated : \A code \in DOMAIN calculatedData[b] :
        calculatedData[b][code].fy_total = edCalculatedData[b][code]

====
